---- MODULE Spec2Model ----
(***************************************************************************)
(* Model of the annotation canvas of Auriga Beta 1.0                       *)
(* (src/components/PaperCanvas.tsx): the PaperCanvas component (view       *)
(* state, input handlers, view-writing effects, render effect), the        *)
(* temporal visibility filter, the live-detection display rule and the     *)
(* label layout with its 1-D relaxation solver.                            *)
(*                                                                         *)
(* Numbers.  JavaScript numbers are modelled as fixed-point integers:      *)
(*   scale            in units of 10^-6          (0.45 is 450000)          *)
(*   playback time    in units of 0.1 s          (0.6 s is 6)              *)
(*   media-space px   in units of 1/PosRes px    (layout only)             *)
(*   screen px        in whole pixels            (pointer positions)       *)
(* A division whose result is not a multiple of the unit is truncated.     *)
(***************************************************************************)
EXTENDS Integers, Sequences, FiniteSets, TLC

VARIABLES
  \* ---- PaperCanvas: view state (useState / useRef, lines 127-142)
  scale,                    \* useState(0.45)
  offset,                   \* useState({x:0,y:0})
  isDragging,               \* useState(false)
  dragStart,                \* useState({x:0,y:0})
  initialPinchDistanceRef,  \* useRef<number|null>(null); NoDist is null
  initialScaleRef,          \* useRef<number>(scale)
  imgDims,                  \* useState({w:1000,h:1000})
  currentTime,              \* useState(0)
  \* ---- PaperCanvas: props handed down by App
  isVideo,                  \* prop isVideo
  srcId,                    \* identity of prop imageSrc
  dataId,                   \* identity of prop data (0 is null)
  detailLevel,              \* prop detailLevel
  \* ---- environment of the component
  mounted,                  \* the component is in the tree
  imgLoads,                 \* Image objects whose onload has not fired yet
  metaPending,              \* the <video> has metadata still to load
  \* ---- render effect (lines 323-534)
  effDirty,                 \* a dependency changed; cleanup + re-run is due
  animationFrameId,         \* the closure variable of the current registration
  rafPending,               \* callbacks registered with requestAnimationFrame
  nextRafId,                \* next handle requestAnimationFrame returns
  frameBy,                  \* registration that rendered the latest frame
  \* ---- PaperCanvas: derived data (useMemo, lines 189-319)
  data,                     \* prop data: the analysis objects, or NoData
  visibleObjects,           \* useMemo visibleObjects
  \* ---- live detections (App state liveDetections, line 937)
  liveDetections,           \* the list handed to the canvas and the HUD
  camTime,                  \* currentTime of the camera <video>, in 0.1 s
  viewport,                 \* which viewport App displays: "canvas", "camera"
  liveShown,                \* per entry: was it drawn by the latest frame
  \* ---- layout (useMemo layout, lines 218-319) and its solver
  labels,                   \* the LayoutLabel objects, in creation order
  leftItems,                \* indices into labels: the array solved first
  rightItems,               \* indices into labels: the array solved second
  passes,                   \* per side: passes solve1DLayout ran
  \* ---- media and canvas (render, lines 326-526)
  mediaReady,               \* vid.readyState >= 2, or a new Image of imageSrc
                            \* is complete with naturalWidth > 0
  frame,                    \* what the latest call of render drew
  \* ---- history
  input,                    \* the pointer, touches or delta of the latest
                            \* step, if it was a wheel event or a move that
                            \* panned or zoomed; NoInput otherwise
  gesture,                  \* of the pan under way: pointer and offset at its
                            \* down; of the pinch under way: distance and
                            \* scale at its two-finger touch-start; lifted: a
                            \* touch-end has ended a pinch and no touch-start
                            \* has followed
  nPinch,                   \* two-finger touch-starts handled so far
  req,                      \* scale the latest step asked for, before clamping
  ev,                       \* the event handled by the latest step
  \* ---- App: state (useState / useRef, lines 903-942)
  inputMode,                \* useState('file'): "file" or "camera"
  isCameraActive,           \* useState(false)
  isPaused,                 \* useState(false)
  loading,                  \* useState(false)
  isVideoFile,              \* useState(false)
  isPlaying,                \* useState(false)
  file,                     \* useState(null): the selected file; NoMedia is null
  imagePreview,             \* useState(null): the media shown; NoMedia is null
  analysisData,             \* useState(null): the media the stored result was
                            \* computed from; NoMedia is null
  streamRef,                \* useRef(null): a camera stream is held
  error,                    \* useState(null): what the error text is about
  rateLimitBackoffRef,      \* useRef(0): end of the backoff, in 0.5 s
  rateLimitActive,          \* useState(false)
  \* ---- App: environment
  camRequests,              \* getUserMedia calls that have not settled
  analyses,                 \* analyzeImage calls that have not settled
  vidPaused,                \* fileVideoRef.current.paused
  now,                      \* Date.now(), in 0.5 s
  \* ---- App: live detection loop (effect, lines 1126-1196)
  pollGen,                  \* the closure whose isMounted is still true
  pollDirty,                \* a dependency changed; cleanup + re-run is due
  pollCap,                  \* what the closure of pollGen captured
  timers,                   \* setTimeout(tick, ...) calls still pending
  requests,                 \* detectLiveObjects calls that have not settled
  \* ---- App: history
  cleared,                  \* the file video was stopped or a file selected,
                            \* and neither playback nor a camera has started
  lastQuota                 \* when a request last failed on quota; NoQuota

viewVars   == <<scale, offset, isDragging, dragStart,
                initialPinchDistanceRef, initialScaleRef>>
mediaVars  == <<imgDims, currentTime, isVideo, srcId, dataId, detailLevel,
                imgLoads, metaPending>>
effectVars == <<effDirty, animationFrameId, rafPending, nextRafId, frameBy>>
histVars   == <<input, gesture>>
drawVars   == <<mediaReady, frame>>
canvasVars == <<viewVars, mediaVars, effectVars, mounted, nPinch, req, ev,
                histVars, drawVars>>

filterVars == <<data, visibleObjects>>
liveVars   == <<liveDetections, camTime, viewport, liveShown>>

layoutVars == <<labels, leftItems, rightItems, passes>>
pipeVars   == <<filterVars, liveVars, layoutVars>>

flagVars == <<inputMode, isCameraActive, isPaused, loading, isVideoFile,
              isPlaying>>
sessVars == <<file, imagePreview, analysisData, streamRef, error,
              camRequests, analyses, vidPaused>>
pollVars == <<rateLimitBackoffRef, rateLimitActive, now, pollGen, pollDirty,
              pollCap, timers, requests, cleared, lastQuota>>
appVars  == <<flagVars, sessVars, pollVars>>

vars == <<canvasVars, pipeVars, appVars>>

----------------------------------------------------------------------------
(* Arithmetic helpers (Math.abs, Math.max, Math.min, Math.hypot).          *)

Abs(x) == IF x < 0 THEN -x ELSE x

Max(a, b) == IF a > b THEN a ELSE b

Min(a, b) == IF a < b THEN a ELSE b

\* Math.hypot, truncated to a whole pixel; the root lies between the
\* larger of |dx|, |dy| and their sum
Hypot(dx, dy) ==
  LET n == dx * dx + dy * dy
  IN  CHOOSE r \in Max(Abs(dx), Abs(dy))..(Abs(dx) + Abs(dy)) :
        r * r <= n /\ (r + 1) * (r + 1) > n

----------------------------------------------------------------------------
(* Program constants of the view.                                          *)

DefaultScale == 450000

MobileScale == 300000

MinScale == 50000

MaxScale == 8000000

\* e.deltaY * 0.001 in units of 10^-6
WheelStep == 1000

\* initialPinchDistanceRef.current === null
NoDist == -1

\* the latest step asked for no scale
NoReq == {}

\* the latest step was no wheel event and no move that panned or zoomed
NoInput == <<>>

----------------------------------------------------------------------------
(* Bounds and input sets of the canvas model.                              *)

\* the offset is explored while |offset.x| <= MaxPan * 50
MaxPan == 1

\* source changes (new imageSrc) handed down by App
MaxSrc == 1

\* handles requestAnimationFrame hands out
MaxRaf == 3

\* two-finger touch-starts (each one captures the scale anew)
MaxPinch == 1

\* pointer positions (clientX, clientY) of mouse and single-touch events
Points == { <<0, 0>>, <<50, -30>> }

\* positions of the two touches of a two-finger event
PinchPts == { <<0, 0>>, <<60, 80>>, <<120, 160>> }

\* e.deltaY of wheel events
WheelDeltas == { -19950, 7999 }

\* native dimensions an image or video can report
Dims == { <<1920, 1080>> }

\* vid.currentTime values, in 0.1 s
Times == { 0, 100 }

DetailLevels == { 20, 50, 100 }

Pt(p) == [x |-> p[1], y |-> p[2]]

\* no pan and no pinch is under way
NoGesture ==
  [downAt |-> Pt(<<0, 0>>), offsetAtDown |-> Pt(<<0, 0>>),
   distAtPinch |-> NoDist, scaleAtPinch |-> DefaultScale, lifted |-> FALSE]

InPan(o) == Abs(o.x) <= MaxPan * 50 /\ Abs(o.y) <= MaxPan * 50

----------------------------------------------------------------------------
(* Input handlers of PaperCanvas (lines 537-605) and the Reset button.     *)
(* setScale re-renders only when the number changes; setOffset always      *)
(* stores a new object, so the render effect's dependencies change.        *)

\* ClampScale with the upper cap forgotten
ClampScaleNoCap(s) == Max(MinScale, s)

ClampScale(s) == Max(MinScale, Min(MaxScale, s))

\* a number is truthy unless it is 0 (or null)
Truthy(n) == n # NoDist /\ n # 0

\* a wheel handler that zooms only while no gesture is under way
handleWheelIdleOnly(d) ==
  /\ UNCHANGED pipeVars
  /\ mounted
  /\ LET newScale == IF isDragging \/ Truthy(initialPinchDistanceRef)
                        THEN scale
                        ELSE ClampScale(scale - d * WheelStep)
     IN  /\ scale' = newScale
         /\ effDirty' = (effDirty \/ newScale # scale)
  /\ req' = { scale - d * WheelStep }
  /\ ev' = "wheel"
  /\ input' = << d >>
  /\ UNCHANGED <<gesture, drawVars>>
  /\ UNCHANGED <<offset, isDragging, dragStart, initialPinchDistanceRef,
                 initialScaleRef, mediaVars, animationFrameId, rafPending,
                 nextRafId, frameBy, mounted, nPinch>>
  /\ UNCHANGED appVars

handleWheel(d) ==
  /\ UNCHANGED pipeVars
  /\ mounted
  /\ LET newScale == ClampScale(scale - d * WheelStep)
     IN  /\ scale' = newScale
         /\ effDirty' = (effDirty \/ newScale # scale)
  /\ req' = { scale - d * WheelStep }
  /\ ev' = "wheel"
  /\ input' = << d >>
  /\ UNCHANGED <<gesture, drawVars>>
  /\ UNCHANGED <<offset, isDragging, dragStart, initialPinchDistanceRef,
                 initialScaleRef, mediaVars, animationFrameId, rafPending,
                 nextRafId, frameBy, mounted, nPinch>>
  /\ UNCHANGED appVars

handleMouseDown(p) ==
  /\ UNCHANGED pipeVars
  /\ mounted
  /\ isDragging' = TRUE
  /\ dragStart' = [x |-> p.x - offset.x, y |-> p.y - offset.y]
  /\ req' = NoReq
  /\ ev' = "mousedown"
  /\ input' = NoInput
  /\ gesture' = [gesture EXCEPT !.downAt = p, !.offsetAtDown = offset]
  /\ UNCHANGED drawVars
  /\ UNCHANGED <<scale, offset, initialPinchDistanceRef, initialScaleRef,
                 mediaVars, effectVars, mounted, nPinch>>
  /\ UNCHANGED appVars

\* a move handler that forgets the anchor of the drag
handleMouseMoveFromOrigin(p) ==
  /\ UNCHANGED pipeVars
  /\ mounted
  /\ IF isDragging
       THEN /\ offset' = [x |-> p.x, y |-> p.y]
            /\ InPan(offset')
            /\ effDirty' = TRUE
       ELSE UNCHANGED <<offset, effDirty>>
  /\ req' = NoReq
  /\ ev' = "mousemove"
  /\ input' = IF isDragging THEN << p >> ELSE NoInput
  /\ UNCHANGED <<gesture, drawVars>>
  /\ UNCHANGED <<scale, isDragging, dragStart, initialPinchDistanceRef,
                 initialScaleRef, mediaVars, animationFrameId, rafPending,
                 nextRafId, frameBy, mounted, nPinch>>
  /\ UNCHANGED appVars

handleMouseMove(p) ==
  /\ UNCHANGED pipeVars
  /\ mounted
  /\ IF isDragging
       THEN /\ offset' = [x |-> p.x - dragStart.x, y |-> p.y - dragStart.y]
            /\ InPan(offset')
            /\ effDirty' = TRUE
       ELSE UNCHANGED <<offset, effDirty>>
  /\ req' = NoReq
  /\ ev' = "mousemove"
  /\ input' = IF isDragging THEN << p >> ELSE NoInput
  /\ UNCHANGED <<gesture, drawVars>>
  /\ UNCHANGED <<scale, isDragging, dragStart, initialPinchDistanceRef,
                 initialScaleRef, mediaVars, animationFrameId, rafPending,
                 nextRafId, frameBy, mounted, nPinch>>
  /\ UNCHANGED appVars

\* bound to onMouseUp and to onMouseLeave
handleMouseUp ==
  /\ UNCHANGED pipeVars
  /\ mounted
  /\ isDragging' = FALSE
  /\ req' = NoReq
  /\ ev' = "mouseup"
  /\ input' = NoInput
  /\ gesture' = [gesture EXCEPT !.downAt = NoGesture.downAt,
                                !.offsetAtDown = NoGesture.offsetAtDown]
  /\ UNCHANGED drawVars
  /\ UNCHANGED <<scale, offset, dragStart, initialPinchDistanceRef,
                 initialScaleRef, mediaVars, effectVars, mounted, nPinch>>
  /\ UNCHANGED appVars

\* e.touches of a touch event: one pointer, two pinch points, or three
TouchLists ==
  { <<Pt(p)>> : p \in Points }
    \cup { <<Pt(<<0, 0>>), Pt(q)>> : q \in PinchPts }
    \cup { <<Pt(<<0, 0>>), Pt(<<0, 0>>), Pt(<<0, 0>>)>> }

TouchDist(t) == Hypot(t[1].x - t[2].x, t[1].y - t[2].y)

handleTouchStart(t) ==
  /\ UNCHANGED pipeVars
  /\ mounted
  /\ IF Len(t) = 1
       THEN /\ dragStart' = [x |-> t[1].x - offset.x, y |-> t[1].y - offset.y]
            /\ isDragging' = TRUE
            /\ UNCHANGED <<initialPinchDistanceRef, initialScaleRef, nPinch>>
       ELSE IF Len(t) = 2
         THEN /\ nPinch < MaxPinch
              /\ nPinch' = nPinch + 1
              /\ initialPinchDistanceRef' = TouchDist(t)
              /\ initialScaleRef' = scale
              /\ isDragging' = FALSE
              /\ UNCHANGED dragStart
         ELSE UNCHANGED <<dragStart, isDragging, initialPinchDistanceRef,
                          initialScaleRef, nPinch>>
  /\ req' = NoReq
  /\ ev' = "touchstart"
  /\ input' = NoInput
  /\ gesture' = IF Len(t) = 1
                  THEN [gesture EXCEPT !.downAt = t[1], !.offsetAtDown = offset,
                                       !.lifted = FALSE]
                ELSE IF Len(t) = 2
                  THEN [NoGesture EXCEPT !.distAtPinch = TouchDist(t),
                                         !.scaleAtPinch = scale]
                  ELSE [gesture EXCEPT !.lifted = FALSE]
  /\ UNCHANGED drawVars
  /\ UNCHANGED <<scale, offset, mediaVars, effectVars, mounted>>
  /\ UNCHANGED appVars

\* a pinch that scales the current scale instead of the recorded one
handleTouchMoveCompounding(t) ==
  /\ UNCHANGED pipeVars
  /\ mounted
  /\ IF Len(t) = 1 /\ isDragging
       THEN /\ offset' = [x |-> t[1].x - dragStart.x, y |-> t[1].y - dragStart.y]
            /\ InPan(offset')
            /\ effDirty' = TRUE
            /\ req' = NoReq
            /\ UNCHANGED scale
       ELSE IF Len(t) = 2 /\ Truthy(initialPinchDistanceRef)
         THEN LET currentDist == TouchDist(t)
                  asked == (scale * currentDist)
                              \div initialPinchDistanceRef
                  newScale == ClampScale(asked)
              IN  /\ scale' = newScale
                  /\ effDirty' = (effDirty \/ newScale # scale)
                  /\ req' = { asked }
                  /\ UNCHANGED offset
         ELSE /\ req' = NoReq
              /\ UNCHANGED <<scale, offset, effDirty>>
  /\ ev' = "touchmove"
  /\ input' = IF (Len(t) = 1 /\ isDragging)
                  \/ (Len(t) = 2 /\ Truthy(initialPinchDistanceRef))
                THEN t ELSE NoInput
  /\ UNCHANGED <<gesture, drawVars>>
  /\ UNCHANGED <<isDragging, dragStart, initialPinchDistanceRef,
                 initialScaleRef, mediaVars, animationFrameId, rafPending,
                 nextRafId, frameBy, mounted, nPinch>>
  /\ UNCHANGED appVars

handleTouchMove(t) ==
  /\ UNCHANGED pipeVars
  /\ mounted
  /\ IF Len(t) = 1 /\ isDragging
       THEN /\ offset' = [x |-> t[1].x - dragStart.x, y |-> t[1].y - dragStart.y]
            /\ InPan(offset')
            /\ effDirty' = TRUE
            /\ req' = NoReq
            /\ UNCHANGED scale
       ELSE IF Len(t) = 2 /\ Truthy(initialPinchDistanceRef)
         THEN LET currentDist == TouchDist(t)
                  asked == (initialScaleRef * currentDist)
                              \div initialPinchDistanceRef
                  newScale == ClampScale(asked)
              IN  /\ scale' = newScale
                  /\ effDirty' = (effDirty \/ newScale # scale)
                  /\ req' = { asked }
                  /\ UNCHANGED offset
         ELSE /\ req' = NoReq
              /\ UNCHANGED <<scale, offset, effDirty>>
  /\ ev' = "touchmove"
  /\ input' = IF (Len(t) = 1 /\ isDragging)
                  \/ (Len(t) = 2 /\ Truthy(initialPinchDistanceRef))
                THEN t ELSE NoInput
  /\ UNCHANGED <<gesture, drawVars>>
  /\ UNCHANGED <<isDragging, dragStart, initialPinchDistanceRef,
                 initialScaleRef, mediaVars, animationFrameId, rafPending,
                 nextRafId, frameBy, mounted, nPinch>>
  /\ UNCHANGED appVars

\* bound to onTouchEnd and to onTouchCancel
handleTouchEnd ==
  /\ UNCHANGED pipeVars
  /\ mounted
  /\ isDragging' = FALSE
  /\ initialPinchDistanceRef' = NoDist
  /\ req' = NoReq
  /\ ev' = "touchend"
  /\ input' = NoInput
  /\ gesture' = [NoGesture EXCEPT !.lifted = Truthy(initialPinchDistanceRef)]
  /\ UNCHANGED drawVars
  /\ UNCHANGED <<scale, offset, dragStart, initialScaleRef, mediaVars,
                 effectVars, mounted, nPinch>>
  /\ UNCHANGED appVars

\* the Reset button restoring the offset only
ResetViewOffsetOnly ==
  /\ UNCHANGED pipeVars
  /\ mounted
  /\ offset' = [x |-> 0, y |-> 0]
  /\ effDirty' = TRUE
  /\ req' = NoReq
  /\ ev' = "reset"
  /\ input' = NoInput
  /\ UNCHANGED <<gesture, drawVars>>
  /\ UNCHANGED <<scale, isDragging, dragStart, initialPinchDistanceRef,
                 initialScaleRef, mediaVars, animationFrameId, rafPending,
                 nextRafId, frameBy, mounted, nPinch>>
  /\ UNCHANGED appVars

\* onClick of the Reset button (lines 634-639)
ResetView ==
  /\ UNCHANGED pipeVars
  /\ mounted
  /\ scale' = DefaultScale
  /\ offset' = [x |-> 0, y |-> 0]
  /\ effDirty' = TRUE
  /\ req' = NoReq
  /\ ev' = "reset"
  /\ input' = NoInput
  /\ UNCHANGED <<gesture, drawVars>>
  /\ UNCHANGED <<isDragging, dragStart, initialPinchDistanceRef,
                 initialScaleRef, mediaVars, animationFrameId, rafPending,
                 nextRafId, frameBy, mounted, nPinch>>
  /\ UNCHANGED appVars

----------------------------------------------------------------------------
(* Temporal visibility filter (parseTimestamp, lines 54-63; visibleObjects, *)
(* lines 189-215).  A string is a sequence of one-character strings; the   *)
(* absent timestamp is NoTs.  parseTimestamp yields a JavaScript number:   *)
(* [nan |-> TRUE] is NaN.                                                  *)

NoTs == << "undefined" >>

Digits == << "0", "1", "2", "3", "4", "5", "6", "7", "8", "9" >>

IsDigit(c) == \E i \in 1..10 : Digits[i] = c

DigitVal(c) == (CHOOSE i \in 1..10 : Digits[i] = c) - 1

NaN == [nan |-> TRUE, v |-> 0]

Num(n) == [nan |-> FALSE, v |-> n]

\* ts.split(':')
RECURSIVE Split(_)
Split(str) ==
  IF \A i \in 1..Len(str) : str[i] # ":"
    THEN << str >>
    ELSE LET k == CHOOSE i \in 1..Len(str) :
                    str[i] = ":" /\ \A j \in 1..(i - 1) : str[j] # ":"
         IN  << SubSeq(str, 1, k - 1) >> \o Split(SubSeq(str, k + 1, Len(str)))

\* the value of the decimal digits str[1..n]
RECURSIVE DigitsValue(_, _)
DigitsValue(str, n) ==
  IF n = 0 THEN 0 ELSE DigitsValue(str, n - 1) * 10 + DigitVal(str[n])

\* parseInt(str): the leading decimal digits, NaN when there is none
ParseInt(str) ==
  LET n == IF \A i \in 1..Len(str) : IsDigit(str[i])
             THEN Len(str)
             ELSE (CHOOSE i \in 1..Len(str) :
                     ~IsDigit(str[i]) /\ \A j \in 1..(i - 1) : IsDigit(str[j])) - 1
  IN  IF n = 0 THEN NaN ELSE Num(DigitsValue(str, n))

\* a parseTimestamp that reads the first part as seconds too
parseTimestampNoMinutes(ts) ==
  IF ts = NoTs \/ ts = <<>>
    THEN Num(-1)
    ELSE LET parts == Split(ts)
         IN  IF Len(parts) = 2
               THEN LET m == ParseInt(parts[1])
                        sec == ParseInt(parts[2])
                    IN  IF m.nan \/ sec.nan THEN NaN ELSE Num(m.v + sec.v)
               ELSE Num(-1)

\* parseTimestamp, in seconds
parseTimestamp(ts) ==
  IF ts = NoTs \/ ts = <<>>
    THEN Num(-1)
    ELSE LET parts == Split(ts)
         IN  IF Len(parts) = 2
               THEN LET m == ParseInt(parts[1])
                        sec == ParseInt(parts[2])
                    IN  IF m.nan \/ sec.nan THEN NaN ELSE Num(m.v * 60 + sec.v)
               ELSE Num(-1)

\* 0.6 s, in 0.1 s
VisibilityWindow == 6

\* the predicate of filtered.filter(...) (lines 194-200)
\* a filter that hides what carries no timestamp
PassesFilterStamped(obj, t) ==
  IF obj.timestamp = NoTs \/ obj.timestamp = <<>>
    THEN FALSE
    ELSE LET objTime == parseTimestamp(obj.timestamp)
         IN  IF ~objTime.nan /\ objTime.v = -1
               THEN TRUE
               ELSE ~objTime.nan /\ Abs(t - objTime.v * 10) < VisibilityWindow

PassesFilter(obj, t) ==
  IF obj.timestamp = NoTs \/ obj.timestamp = <<>>
    THEN TRUE
    ELSE LET objTime == parseTimestamp(obj.timestamp)
         IN  IF ~objTime.nan /\ objTime.v = -1
               THEN TRUE
               ELSE ~objTime.nan /\ Abs(t - objTime.v * 10) < VisibilityWindow

Take(seq, n) == SubSeq(seq, 1, Min(n, Len(seq)))

RECURSIVE FilterSeq(_, _)
FilterSeq(seq, t) ==
  IF seq = <<>> THEN <<>>
  ELSE (IF PassesFilter(Head(seq), t) THEN << Head(seq) >> ELSE <<>>)
         \o FilterSeq(Tail(seq), t)

\* the last n elements of seq
TakeLast(seq, n) == SubSeq(seq, Len(seq) - Min(n, Len(seq)) + 1, Len(seq))

\* a reduction that keeps the last details instead of the first
VisibleObjectsTail(d, level, video, t) ==
  IF d.null THEN <<>>
  ELSE LET filtered == IF video THEN FilterSeq(d.objects, t) ELSE d.objects
       IN  IF level < 100
             THEN LET maxDetails == Max(1, level \div 20)
                      cut == [i \in 1..Len(filtered) |->
                                [filtered[i] EXCEPT
                                   !.details = TakeLast(filtered[i].details, maxDetails)]]
                  IN  IF level < 30
                        THEN Take(cut, Max(1, (Len(cut) * level) \div 30))
                        ELSE cut
             ELSE filtered

\* the useMemo of visibleObjects (lines 189-215)
VisibleObjects(d, level, video, t) ==
  IF d.null THEN <<>>
  ELSE LET filtered == IF video THEN FilterSeq(d.objects, t) ELSE d.objects
       IN  IF level < 100
             THEN LET maxDetails == Max(1, level \div 20)
                      cut == [i \in 1..Len(filtered) |->
                                [filtered[i] EXCEPT
                                   !.details = Take(filtered[i].details, maxDetails)]]
                  IN  IF level < 30
                        THEN Take(cut, Max(1, (Len(cut) * level) \div 30))
                        ELSE cut
             ELSE filtered

----------------------------------------------------------------------------
(* Label layout (layout, lines 218-319) and its solver (solve1DLayout,     *)
(* lines 66-111).  A label is a record; leftItems and rightItems hold      *)
(* indices into labels, because the arrays the solver sorts hold the       *)
(* label objects themselves and the solver writes their ty in place.       *)
(* layout only calls the solver with isVertical = true.                    *)

\* position units per px
PosRes == 64 * 1000

MARGIN_Y == 600

FONT_HEIGHT_HEADER == 20

LABEL_PADDING == 10

headerWidth == 260

detailWidth == 240

estHeight == 45

\* distance of a header's target from the media edge
HeaderReach == 350

\* a detail's target lies this much further out than its header's
DetailReach == 50

\* vertical step between the targets of an object's details
DetailStep == 80

\* gap the solver keeps between two labels
SolverGap == 10

\* distance of the connector channel from the media edge
ChannelReach == 50

\* let iterations = 20
MaxIterations == 20

Px(n) == n * PosRes

\* a normalised coordinate (0-1000) times scaleX or scaleY
Scaled(n, size) == n * size * (PosRes \div 1000)

\* a header label whose side goes by the row of the quadrant
HeaderLabelByRow(obj, idx, dims) ==
  LET ymin == Scaled(obj.box_2d[1], dims.h)
      xmin == Scaled(obj.box_2d[2], dims.w)
      ymax == Scaled(obj.box_2d[3], dims.h)
      xmax == Scaled(obj.box_2d[4], dims.w)
      cx == (xmin + xmax) \div 2
      cy == (ymin + ymax) \div 2
      quadrant == (IF cy > Px(dims.h) \div 2 THEN 2 ELSE 0)
                    + (IF cx > Px(dims.w) \div 2 THEN 1 ELSE 0)
      left == quadrant = 0 \/ quadrant = 1
  IN  [isHeader |-> TRUE,
       obj      |-> idx,
       px       |-> IF left THEN xmin ELSE xmax,
       py       |-> cy,
       tx       |-> IF left THEN Px(-HeaderReach) ELSE Px(dims.w + HeaderReach),
       ty       |-> cy,
       width    |-> Px(headerWidth),
       height   |-> Px(obj.lines * FONT_HEIGHT_HEADER + LABEL_PADDING * 2),
       edge     |-> IF left THEN "left" ELSE "right"]

\* the header label of the object at index idx (lines 226-275)
HeaderLabel(obj, idx, dims) ==
  LET ymin == Scaled(obj.box_2d[1], dims.h)
      xmin == Scaled(obj.box_2d[2], dims.w)
      ymax == Scaled(obj.box_2d[3], dims.h)
      xmax == Scaled(obj.box_2d[4], dims.w)
      cx == (xmin + xmax) \div 2
      cy == (ymin + ymax) \div 2
      quadrant == (IF cy > Px(dims.h) \div 2 THEN 2 ELSE 0)
                    + (IF cx > Px(dims.w) \div 2 THEN 1 ELSE 0)
      left == quadrant = 0 \/ quadrant = 2
  IN  [isHeader |-> TRUE,
       obj      |-> idx,
       px       |-> IF left THEN xmin ELSE xmax,
       py       |-> cy,
       tx       |-> IF left THEN Px(-HeaderReach) ELSE Px(dims.w + HeaderReach),
       ty       |-> cy,
       width    |-> Px(headerWidth),
       height   |-> Px(obj.lines * FONT_HEIGHT_HEADER + LABEL_PADDING * 2),
       edge     |-> IF left THEN "left" ELSE "right"]

\* the label of detail dIdx (from 0) of the object with header head
\* (lines 277-297)
DetailLabel(head, det, dIdx, dims) ==
  [isHeader |-> FALSE,
   obj      |-> head.obj,
   px       |-> Scaled(det.location_point[2], dims.w),
   py       |-> Scaled(det.location_point[1], dims.h),
   tx       |-> head.tx + (IF head.edge = "left" THEN Px(-DetailReach)
                                                 ELSE Px(DetailReach)),
   ty       |-> head.ty + (dIdx + 1) * Px(DetailStep),
   width    |-> Px(detailWidth),
   height   |-> Px(estHeight),
   edge     |-> head.edge]

ObjectLabels(obj, idx, dims) ==
  LET head == HeaderLabel(obj, idx, dims)
  IN  << head >> \o [k \in 1..Len(obj.details) |->
                       DetailLabel(head, obj.details[k], k - 1, dims)]

\* visibleObjects.forEach: the labels of the objects from index idx on
RECURSIVE BuildLabels(_, _, _)
BuildLabels(vis, idx, dims) ==
  IF idx > Len(vis) THEN <<>>
  ELSE ObjectLabels(vis[idx], idx, dims) \o BuildLabels(vis, idx + 1, dims)

\* labels.filter(l => l.edge === e), from index i on
RECURSIVE OnEdge(_, _, _)
OnEdge(lbls, e, i) ==
  IF i > Len(lbls) THEN <<>>
  ELSE (IF lbls[i].edge = e THEN << i >> ELSE <<>>) \o OnEdge(lbls, e, i + 1)

Front(seq) == SubSeq(seq, 1, Len(seq) - 1)

Last(seq) == seq[Len(seq)]

RECURSIVE InsertByPy(_, _, _)
InsertByPy(sorted, k, lbls) ==
  IF sorted = <<>> \/ lbls[Last(sorted)].py <= lbls[k].py
    THEN Append(sorted, k)
    ELSE Append(InsertByPy(Front(sorted), k, lbls), Last(sorted))

\* items.sort((a, b) => a.py - b.py): ascending and stable
RECURSIVE SortByPy(_, _)
SortByPy(items, lbls) ==
  IF items = <<>> THEN <<>>
  ELSE InsertByPy(SortByPy(Front(items), lbls), Last(items), lbls)

\* the for loop over the adjacent pairs of one pass (lines 74-97), from
\* pair i on; ty and size hold item.ty and item.height in sorted order
RECURSIVE Sweep(_, _, _, _)
Sweep(ty, size, i, overlapFound) ==
  IF i >= Len(ty)
    THEN [ty |-> ty, overlapFound |-> overlapFound]
    ELSE LET aPos == ty[i]
             bPos == ty[i + 1]
             dist == bPos - aPos
             minSep == (size[i] + size[i + 1]) \div 2 + Px(SolverGap)
             push == (minSep - dist) \div 2
         IN  IF dist < minSep
               THEN Sweep([ty EXCEPT ![i] = aPos - push, ![i + 1] = bPos + push],
                          size, i + 1, TRUE)
               ELSE Sweep(ty, size, i + 1, overlapFound)

\* boundary constraints that leave out the upper bound
BoundLowOnly(pos, height, minPos, maxPos) ==
  IF pos - height \div 2 < minPos THEN minPos + height \div 2 ELSE pos

\* boundary constraints of one item (lines 101-103)
Bound(pos, height, minPos, maxPos) ==
  LET low == IF pos - height \div 2 < minPos THEN minPos + height \div 2 ELSE pos
  IN  IF low + height \div 2 > maxPos THEN maxPos - height \div 2 ELSE low

\* for (let item of items): boundary constraints (lines 99-108)
Constrain(ty, size, minPos, maxPos) ==
  [i \in 1..Len(ty) |-> Bound(ty[i], size[i], minPos, maxPos)]

\* a loop that runs its whole budget, without the break of line 109
RECURSIVE RelaxFullBudget(_, _, _, _, _, _)
RelaxFullBudget(ty, size, minPos, maxPos, iterations, used) ==
  IF iterations = 0
    THEN [ty |-> ty, passes |-> used]
    ELSE RelaxFullBudget(Constrain(Sweep(ty, size, 1, FALSE).ty,
                                   size, minPos, maxPos),
                         size, minPos, maxPos, iterations - 1, used + 1)

\* while (iterations-- > 0) (lines 71-110); used counts the passes run
RECURSIVE Relax(_, _, _, _, _, _)
Relax(ty, size, minPos, maxPos, iterations, used) ==
  IF iterations = 0
    THEN [ty |-> ty, passes |-> used]
    ELSE LET sw == Sweep(ty, size, 1, FALSE)
             bounded == Constrain(sw.ty, size, minPos, maxPos)
         IN  IF ~sw.overlapFound
               THEN [ty |-> bounded, passes |-> used + 1]
               ELSE Relax(bounded, size, minPos, maxPos, iterations - 1, used + 1)

\* the position of label k in the array items
IndexIn(items, k) == CHOOSE i \in 1..Len(items) : items[i] = k

\* solve1DLayout(items, true, minPos, maxPos): the labels with the ty the
\* solver has written, the array as sorted, the passes run
solve1DLayout(lbls, items, minPos, maxPos) ==
  IF Len(items) = 0
    THEN [labels |-> lbls, items |-> items, passes |-> 0]
    ELSE LET sorted == SortByPy(items, lbls)
             r == Relax([i \in 1..Len(sorted) |-> lbls[sorted[i]].ty],
                        [i \in 1..Len(sorted) |-> lbls[sorted[i]].height],
                        minPos, maxPos, MaxIterations, 0)
         IN  [labels |-> [k \in 1..Len(lbls) |->
                            IF \E i \in 1..Len(sorted) : sorted[i] = k
                              THEN [lbls[k] EXCEPT !.ty = r.ty[IndexIn(sorted, k)]]
                              ELSE lbls[k]],
              items |-> sorted, passes |-> r.passes]

\* lower and upper end of the margin band (lines 313-314)
BandMin == Px(-MARGIN_Y + 100)

BandMax(dims) == Px(dims.h + MARGIN_Y - 100)

\* what layout leaves behind: l and r are the results of the two solver
\* calls, r holding the labels after both
LayoutOf(l, r) ==
  [labels |-> r.labels, leftItems |-> l.items, rightItems |-> r.items,
   passes |-> [left |-> l.passes, right |-> r.passes]]

\* the second call of the solver (line 316), after the first gave l
SolveRight(l, items, minPos, maxPos) ==
  LayoutOf(l, solve1DLayout(l.labels, items, minPos, maxPos))

\* leftItems, rightItems and the two calls of the solver (lines 310-316)
SolveSides(lbls, minPos, maxPos) ==
  SolveRight(solve1DLayout(lbls, OnEdge(lbls, "left", 1), minPos, maxPos),
             OnEdge(lbls, "right", 1), minPos, maxPos)

\* the useMemo of layout (lines 218-319)
layout(d, vis, dims) ==
  IF d.null
    THEN [labels |-> <<>>, leftItems |-> <<>>, rightItems |-> <<>>,
          passes |-> [left |-> 0, right |-> 0]]
    ELSE SolveSides(BuildLabels(vis, 1, dims), BandMin, BandMax(dims))

\* the layout variables hold the result r
Laid(r) ==
  /\ labels = r.labels
  /\ leftItems = r.leftItems
  /\ rightItems = r.rightItems
  /\ passes = r.passes

\* the layout variables take the result r
Relaid(r) ==
  /\ labels' = r.labels
  /\ leftItems' = r.leftItems
  /\ rightItems' = r.rightItems
  /\ passes' = r.passes

\* a re-render with new dependencies: both useMemo values are computed anew,
\* layout from the new visibleObjects
Recompute(d, level, video, t, dims) ==
  /\ visibleObjects' = VisibleObjects(d, level, video, t)
  /\ Relaid(layout(d, visibleObjects', dims))

----------------------------------------------------------------------------
(* Props handed down by App, and the effects that write the view           *)
(* (image-load effect, lines 145-159; video sync effect, lines 162-186).   *)

NoMeta == <<>>

\* prop data === null
NoData == [null |-> TRUE, objects |-> <<>>]

\* an analysis result with the given objects
Data(objs) == [null |-> FALSE, objects |-> objs]

\* an entity without details; lines counts the text lines of its header
Entity(ts) ==
  [id |-> 1, box_2d |-> <<100, 100, 300, 300>>, details |-> <<>>,
   lines |-> 1, timestamp |-> ts]

\* the value of prop data with identity d
AnalysisOf(d) == IF d = 0 THEN NoData ELSE Data(<< Entity(NoTs) >>)

ViewOnLoad(dims, mobile) ==
  /\ imgDims' = [w |-> dims[1], h |-> dims[2]]
  /\ offset' = [x |-> 0, y |-> 0]
  /\ scale' = IF mobile THEN MobileScale ELSE scale

\* App hands down a new imageSrc (and isVideo).  The image-load effect
\* re-runs and, for a still image, creates an Image whose onload is never
\* withdrawn; a <video> element starts loading its metadata.
PropSource(v, dims) ==
  /\ mounted
  /\ srcId < MaxSrc
  /\ UNCHANGED <<data, liveVars>>
  /\ Recompute(data, detailLevel, v, currentTime, imgDims)
  /\ srcId' = srcId + 1
  /\ isVideo' = v
  /\ imgLoads' = IF v THEN imgLoads
                 ELSE imgLoads \cup { [src |-> srcId + 1, dims |-> dims] }
  /\ metaPending' = IF v THEN dims ELSE NoMeta
  /\ effDirty' = TRUE
  /\ req' = NoReq
  /\ ev' = "source"
  /\ mediaReady' = FALSE
  /\ input' = NoInput
  /\ UNCHANGED <<gesture, frame>>
  /\ UNCHANGED <<viewVars, imgDims, currentTime, dataId, detailLevel,
                 animationFrameId, rafPending, nextRafId, frameBy, mounted, nPinch>>
  /\ UNCHANGED appVars

\* img.onload (lines 148-156)
ImgOnload(l, mobile) ==
  /\ UNCHANGED <<data, liveVars>>
  /\ mounted
  /\ l \in imgLoads
  /\ imgLoads' = imgLoads \ {l}
  /\ ViewOnLoad(l.dims, mobile)
  /\ Recompute(data, detailLevel, isVideo, currentTime, imgDims')
  /\ effDirty' = TRUE
  /\ req' = NoReq
  /\ ev' = "imgload"
  /\ mediaReady' = (mediaReady \/ (~isVideo /\ l.src = srcId))
  /\ input' = NoInput
  /\ UNCHANGED <<gesture, frame>>
  /\ UNCHANGED <<isDragging, dragStart, initialPinchDistanceRef,
                 initialScaleRef, currentTime, isVideo, srcId, dataId,
                 detailLevel, metaPending, animationFrameId, rafPending,
                 nextRafId, frameBy, mounted, nPinch>>
  /\ UNCHANGED appVars

\* loadedmetadata listener (lines 170-176), attached while isVideo
metaHandler(mobile) ==
  /\ UNCHANGED <<data, liveVars>>
  /\ mounted
  /\ isVideo
  /\ metaPending # NoMeta
  /\ metaPending' = NoMeta
  /\ ViewOnLoad(metaPending, mobile)
  /\ Recompute(data, detailLevel, isVideo, currentTime, imgDims')
  /\ effDirty' = TRUE
  /\ req' = NoReq
  /\ ev' = "meta"
  /\ input' = NoInput
  /\ UNCHANGED <<gesture, drawVars>>
  /\ UNCHANGED <<isDragging, dragStart, initialPinchDistanceRef,
                 initialScaleRef, currentTime, isVideo, srcId, dataId,
                 detailLevel, imgLoads, animationFrameId, rafPending,
                 nextRafId, frameBy, mounted, nPinch>>
  /\ UNCHANGED appVars

\* the timeupdate listener also restoring the default scale
handlerRescales(t) ==
  /\ mounted
  /\ isVideo
  /\ UNCHANGED <<data, liveVars>>
  /\ Recompute(data, detailLevel, isVideo, t, imgDims)
  /\ currentTime' = t
  /\ scale' = DefaultScale
  /\ effDirty' = TRUE
  /\ req' = NoReq
  /\ ev' = "time"
  /\ input' = NoInput
  /\ UNCHANGED <<gesture, drawVars>>
  /\ UNCHANGED <<offset, isDragging, dragStart, initialPinchDistanceRef,
                 initialScaleRef, imgDims, isVideo, srcId, dataId, detailLevel,
                 imgLoads, metaPending, animationFrameId, rafPending,
                 nextRafId, frameBy, mounted, nPinch>>
  /\ UNCHANGED appVars

\* timeupdate listener (lines 165-168), attached while isVideo
handler(t) ==
  /\ mounted
  /\ isVideo
  /\ UNCHANGED <<data, liveVars>>
  /\ Recompute(data, detailLevel, isVideo, t, imgDims)
  /\ currentTime' = t
  /\ effDirty' = (effDirty \/ t # currentTime)
  /\ req' = NoReq
  /\ ev' = "time"
  /\ input' = NoInput
  /\ UNCHANGED <<gesture, drawVars>>
  /\ UNCHANGED <<viewVars, imgDims, isVideo, srcId, dataId, detailLevel,
                 imgLoads, metaPending, animationFrameId, rafPending,
                 nextRafId, frameBy, mounted, nPinch>>
  /\ UNCHANGED appVars

\* a new analysis result (or null) arrives in prop data
PropData(d) ==
  /\ mounted
  /\ d # dataId
  /\ UNCHANGED liveVars
  /\ data' = AnalysisOf(d)
  /\ Recompute(data', detailLevel, isVideo, currentTime, imgDims)
  /\ dataId' = d
  /\ effDirty' = TRUE
  /\ req' = NoReq
  /\ ev' = "data"
  /\ input' = NoInput
  /\ UNCHANGED <<gesture, drawVars>>
  /\ UNCHANGED <<viewVars, imgDims, currentTime, isVideo, srcId, detailLevel,
                 imgLoads, metaPending, animationFrameId, rafPending,
                 nextRafId, frameBy, mounted, nPinch>>
  /\ UNCHANGED appVars

\* the detail-level slider moves; visibleObjects is recomputed
PropDetail(l) ==
  /\ mounted
  /\ l # detailLevel
  /\ UNCHANGED <<data, liveVars>>
  /\ Recompute(data, l, isVideo, currentTime, imgDims)
  /\ detailLevel' = l
  /\ effDirty' = TRUE
  /\ req' = NoReq
  /\ ev' = "detail"
  /\ input' = NoInput
  /\ UNCHANGED <<gesture, drawVars>>
  /\ UNCHANGED <<viewVars, imgDims, currentTime, isVideo, srcId, dataId,
                 imgLoads, metaPending, animationFrameId, rafPending,
                 nextRafId, frameBy, mounted, nPinch>>
  /\ UNCHANGED appVars

----------------------------------------------------------------------------
(* render (lines 326-526): what one call draws.  A frame records the media *)
(* step, the committed objects whose box and corner accents were stroked,  *)
(* by index into visibleObjects, and the connector of each label drawn, by *)
(* index into layout.                                                      *)

\* det.timestamp === undefined
NoLiveTs == -1

\* 1.2 s, in 0.1 s
StaleBound == 12

\* a canvas that hides a detection as soon as it is 1.2 s old
CanvasDrawsLiveStrict(det, video, t) ==
  ~(video /\ det.timestamp # NoLiveTs /\ Abs(t - det.timestamp) >= StaleBound)

\* render: the forEach body returns early for a ghost (lines 390-394)
CanvasDrawsLive(det, video, t) ==
  ~(video /\ det.timestamp # NoLiveTs /\ Abs(t - det.timestamp) > StaleBound)

\* step 3a: which entries of the live list are drawn
LiveDrawn(live, video, t) ==
  [i \in 1..Len(live) |-> CanvasDrawsLive(live[i], video, t)]

\* step 1 (lines 355-372): the video frame or the image when it is ready;
\* the "VIDEO LOADING..." fill for a video that is not; nothing for an image
\* that is not
MediaDrawn(video, ready) ==
  IF video
    THEN IF ready THEN "media" ELSE "placeholder"
    ELSE IF ready THEN "media" ELSE "none"

\* the condition of step 3b (line 418)
CommittedDrawn(d, live) == ~d.null /\ Len(live) = 0

\* a connector that turns at the anchor instead of the channel
ConnectorDirect(lbl, dims) ==
  << <<lbl.px, lbl.py>>, <<lbl.px, lbl.py>>, <<lbl.px, lbl.ty>>,
     <<lbl.tx, lbl.ty>> >>

\* the connector of a label (lines 465-470): the points of its path
Connector(lbl, dims) ==
  LET elbowX == IF lbl.edge = "left" THEN Px(-ChannelReach)
                                     ELSE Px(dims.w + ChannelReach)
  IN  << <<lbl.px, lbl.py>>, <<elbowX, lbl.py>>, <<elbowX, lbl.ty>>,
         <<lbl.tx, lbl.ty>> >>

\* steps 3b and 4 (lines 418-519): every visible object is stroked and
\* every label of layout is drawn at the end of its connector
Render(d, vis, lbls, live, video, ready, dims) ==
  [media      |-> MediaDrawn(video, ready),
   objects    |-> IF CommittedDrawn(d, live) THEN 1..Len(vis) ELSE {},
   connectors |-> IF CommittedDrawn(d, live)
                    THEN [k \in 1..Len(lbls) |-> Connector(lbls[k], dims)]
                    ELSE <<>>]

----------------------------------------------------------------------------
(* Render effect (lines 323-534).  A registration is one run of the        *)
(* effect: its closure holds animationFrameId and render.  A callback      *)
(* registered with requestAnimationFrame is [id, reg]: reg is "current"    *)
(* while its registration has not been cleaned up and "old" afterwards.    *)

\* a cleanup that cancels nothing
CleanupNothing(pending, id) == pending

\* cleanup (lines 530-532): if (animationFrameId) cancelAnimationFrame(..)
Cleanup(pending, id) ==
  IF id # 0 THEN { h \in pending : h.id # id } ELSE pending

Retire(pending) == { [id |-> h.id, reg |-> "old"] : h \in pending }

\* a dependency changed: React cleans the registration up and runs the
\* effect again; the effect calls render() once and, for video, registers
\* the next frame
RunEffect ==
  /\ UNCHANGED <<filterVars, layoutVars, liveDetections, camTime, viewport>>
  /\ frame' = Render(data, visibleObjects, labels, liveDetections, isVideo,
                     mediaReady, imgDims)
  /\ liveShown' = LiveDrawn(liveDetections, isVideo, currentTime)
  /\ input' = NoInput
  /\ UNCHANGED <<gesture, mediaReady>>
  /\ mounted
  /\ effDirty
  /\ isVideo => nextRafId <= MaxRaf
  /\ effDirty' = FALSE
  /\ frameBy' = "current"
  /\ LET kept == Retire(Cleanup(rafPending, animationFrameId))
     IN  IF isVideo
           THEN /\ animationFrameId' = nextRafId
                /\ rafPending' = kept \cup { [id |-> nextRafId, reg |-> "current"] }
                /\ nextRafId' = nextRafId + 1
           ELSE /\ animationFrameId' = 0
                /\ rafPending' = kept
                /\ UNCHANGED nextRafId
  /\ req' = NoReq
  /\ ev' = "effect"
  /\ UNCHANGED <<viewVars, mediaVars, mounted, nPinch>>
  /\ UNCHANGED appVars

\* step 1 of a frame callback.  Its closure is the one of the registration,
\* with isVideo true; vid.readyState is read anew.  After the source became
\* a still image videoRef.current is null and the else branch finds no
\* image at the video's address.
RafMedia == IF isVideo THEN MediaDrawn(TRUE, mediaReady) ELSE "none"

\* the browser runs a registered callback: render() of the registration
\* that registered it (line 524), which draws what the registration's first
\* call drew, the media step apart.  Without a canvas render returns at
\* once.
RafFire(h) ==
  /\ UNCHANGED pipeVars
  /\ input' = NoInput
  /\ UNCHANGED <<gesture, mediaReady>>
  /\ h \in rafPending
  /\ IF mounted
       THEN /\ nextRafId <= MaxRaf
            /\ frame' = [frame EXCEPT !.media = RafMedia]
            /\ frameBy' = h.reg
            /\ rafPending' = (rafPending \ {h})
                               \cup { [id |-> nextRafId, reg |-> h.reg] }
            /\ animationFrameId' =
                 IF h.reg = "current" THEN nextRafId ELSE animationFrameId
            /\ nextRafId' = nextRafId + 1
       ELSE /\ rafPending' = rafPending \ {h}
            /\ UNCHANGED <<frame, frameBy, animationFrameId, nextRafId>>
  /\ req' = NoReq
  /\ ev' = "raf"
  /\ UNCHANGED <<viewVars, mediaVars, effDirty, mounted, nPinch>>
  /\ UNCHANGED appVars

\* the component is removed from the tree: every effect is cleaned up
Unmount ==
  /\ UNCHANGED pipeVars
  /\ mounted
  /\ mounted' = FALSE
  /\ rafPending' = Retire(Cleanup(rafPending, animationFrameId))
  /\ req' = NoReq
  /\ ev' = "unmount"
  /\ input' = NoInput
  /\ UNCHANGED <<gesture, drawVars>>
  /\ UNCHANGED <<viewVars, mediaVars, effDirty, animationFrameId, nextRafId,
                 frameBy, nPinch>>
  /\ UNCHANGED appVars

----------------------------------------------------------------------------
(* App: the state around the canvas (lines 903-942), the closure of the    *)
(* live detection loop (lines 1126-1196) and the viewport App displays     *)
(* (lines 1430-1497).  Time is counted in units of 0.5 s.                  *)

NoMedia  == 0      \* null: no file, no preview, no analysis result
Captured == 0 - 1  \* the data URL captureFrame returned (line 1222)
NoQuota  == 0 - 1  \* no request has failed on quota
NoError  == "none" \* null: no error text

IdleDelay    == 2   \* setTimeout(tick, 1000), lines 1139 and 1147
NotReadyWait == 1   \* setTimeout(tick, 500), line 1157
BaseDelay    == 2   \* let nextDelay = 1000, line 1163
QuotaDelay   == 10  \* nextDelay = 5000, line 1182
BackoffSpan  == 20  \* Date.now() + 10000, line 1181

\* the elements the refs point to: the <video> of the camera viewport
\* (line 1433) and the hidden <video> of the canvas (line 621, handed
\* fileVideoRef at line 1482)
HasCameraVideo == inputMode = "camera" /\ isCameraActive
HasFileVideo   == ~isCameraActive /\ imagePreview # NoMedia /\ isVideoFile

\* what videoRef.current and fileVideoRef.current hold (line 1154)
CameraVideo == [there |-> HasCameraVideo, paused |-> isPaused, at |-> camTime]
FileVideo   == [there |-> HasFileVideo, paused |-> vidPaused, at |-> currentTime]

\* what a run of the effect captures of the render it belongs to (lines
\* 1133-1134, 1145, 1154, 1171)
Closure(mode, cam, paused, load, vidFile, playing, limited) ==
  [ inputMode       |-> mode,
    needsDetection  |-> \/ mode = "camera" /\ cam /\ ~paused /\ ~load
                        \/ mode = "file" /\ vidFile /\ playing /\ ~load,
    stillActive     |-> \/ mode = "camera" /\ ~paused
                        \/ mode = "file" /\ playing,
    rateLimitActive |-> limited ]

\* the dependency array of the effect (line 1196)
PollDeps == <<inputMode, isCameraActive, isPaused, loading, isVideoFile,
              isPlaying>>

\* tick up to its first setTimeout or await (lines 1130-1166), run by the
\* closure c of chain g at time t, against what the refs and the DOM hold at
\* that moment (cam and vid: is the <video> there, is it paused, its
\* currentTime): what it schedules or sends, and the indicator it leaves
tick(c, g, t, backoffEnd, limited, cam, vid) ==
  IF ~c.needsDetection
    THEN [ timer   |-> { [gen |-> g, due |-> t + IdleDelay] },
           request |-> {},
           limited |-> limited ]
  ELSE IF t < backoffEnd
    THEN [ timer   |-> { [gen |-> g, due |-> t + IdleDelay] },
           request |-> {},
           limited |-> IF ~c.rateLimitActive THEN TRUE ELSE limited ]
  ELSE LET lim  == IF c.rateLimitActive THEN FALSE ELSE limited
           el   == IF c.inputMode = "camera" THEN cam ELSE vid
       IN  IF ~el.there \/ el.paused
             THEN [ timer   |-> { [gen |-> g, due |-> t + NotReadyWait] },
                    request |-> {},
                    limited |-> lim ]
             ELSE [ timer   |-> {},
                    request |-> { [gen |-> g, stillActive |-> c.stillActive,
                                   timestamp |-> el.at, sent |-> t] },
                    limited |-> lim ]

\* App as the canvas specifications find it: it displays viewport v, a file
\* is loaded unless the camera runs, and the effects have run once
AppShows(v) ==
  /\ inputMode = IF v = "camera" THEN "camera" ELSE "file"
  /\ isCameraActive = (v = "camera")
  /\ streamRef = (v = "camera")
  /\ isPaused = FALSE
  /\ loading = FALSE
  /\ isVideoFile = (v = "canvas" /\ isVideo)
  /\ isPlaying = FALSE
  /\ file = IF v = "canvas" THEN 1 ELSE NoMedia
  /\ imagePreview = file
  /\ analysisData = NoMedia
  /\ error = NoError
  /\ rateLimitBackoffRef = 0
  /\ rateLimitActive = FALSE
  /\ camRequests = 0
  /\ analyses = {}
  /\ vidPaused = TRUE
  /\ now = 0
  /\ pollGen = 1
  /\ pollDirty = FALSE
  /\ pollCap = Closure(inputMode, isCameraActive, isPaused, loading,
                       isVideoFile, isPlaying, rateLimitActive)
  /\ LET r == tick(pollCap, pollGen, now, rateLimitBackoffRef, rateLimitActive,
                   CameraVideo, FileVideo)
     IN  timers = r.timer /\ requests = r.request
  /\ cleared = FALSE
  /\ lastQuota = NoQuota

----------------------------------------------------------------------------
(* The component after its first commit: the effects have run once.        *)

\* dimSet: the native dimensions the media at hand may report
CanvasInitWith(dimSet) ==
  /\ scale = DefaultScale
  /\ offset = [x |-> 0, y |-> 0]
  /\ isDragging = FALSE
  /\ dragStart = [x |-> 0, y |-> 0]
  /\ initialPinchDistanceRef = NoDist
  /\ initialScaleRef = DefaultScale
  /\ imgDims = [w |-> 1000, h |-> 1000]
  /\ currentTime = 0
  /\ isVideo \in BOOLEAN
  /\ srcId = 0
  /\ detailLevel = 50
  /\ mounted = TRUE
  /\ \E d \in dimSet :
       /\ imgLoads = IF isVideo THEN {} ELSE { [src |-> 0, dims |-> d] }
       /\ metaPending = IF isVideo THEN d ELSE NoMeta
  /\ effDirty = FALSE
  /\ animationFrameId = IF isVideo THEN 1 ELSE 0
  /\ rafPending = IF isVideo THEN { [id |-> 1, reg |-> "current"] } ELSE {}
  /\ nextRafId = IF isVideo THEN 2 ELSE 1
  /\ frameBy = "current"
  /\ nPinch = 0
  /\ req = NoReq
  /\ input = NoInput
  /\ gesture = NoGesture
  /\ ev = "init"

CanvasInit == CanvasInitWith(Dims)

\* the layout of the data at hand; the first frame was drawn before the
\* media arrived and before any live detection
PipeIdle_Except_Live ==
  /\ Laid(layout(data, visibleObjects, imgDims))
  /\ mediaReady = FALSE
  /\ frame = Render(data, visibleObjects, labels, <<>>, isVideo, FALSE, imgDims)

\* no live detection, nothing laid out
PipeIdle_Except_Data ==
  /\ liveDetections = <<>>
  /\ camTime = 0
  /\ viewport = "canvas"
  /\ liveShown = <<>>
  /\ PipeIdle_Except_Live
  /\ AppShows(viewport)

\* no analysis result either
PipeIdle ==
  /\ dataId = 0
  /\ data = NoData
  /\ visibleObjects = <<>>
  /\ PipeIdle_Except_Data

Init == CanvasInit /\ PipeIdle

\* The Interaction Controller and the effects that write the view, for the
\* source the component was mounted with.
Next ==
  \/ \E d \in WheelDeltas : handleWheel(d)
  \/ \E p \in Points : handleMouseDown(Pt(p))
  \/ \E p \in Points : handleMouseMove(Pt(p))
  \/ handleMouseUp
  \/ \E t \in TouchLists : handleTouchStart(t)
  \/ \E t \in TouchLists : handleTouchMove(t)
  \/ handleTouchEnd
  \/ ResetView
  \/ \E l \in imgLoads, m \in BOOLEAN : ImgOnload(l, m)
  \/ \E m \in BOOLEAN : metaHandler(m)

Spec == Init /\ [][Next]_vars

\* The render effect with every event that changes one of its dependencies.
NextRender ==
  \/ \E d \in WheelDeltas : handleWheel(d)
  \/ ResetView
  \/ \E v \in BOOLEAN, d \in Dims : PropSource(v, d)
  \/ \E l \in imgLoads, m \in BOOLEAN : ImgOnload(l, m)
  \/ \E m \in BOOLEAN : metaHandler(m)
  \/ \E t \in Times : handler(t)
  \/ \E d \in 0..1 : PropData(d)
  \/ \E l \in DetailLevels : PropDetail(l)
  \/ RunEffect
  \/ \E h \in rafPending : RafFire(h)
  \/ Unmount

SpecRender == Init /\ [][NextRender]_vars

----------------------------------------------------------------------------
(* The filter explored: one entity, every timestamp string over TsChars up  *)
(* to MaxTsLen characters, playback times around the readings.             *)

\* longest timestamp string explored
MaxTsLen == 5

TsChars == { "0", "1", ":" }

RECURSIVE StringsOfLen(_)
StringsOfLen(n) ==
  IF n = 0 THEN { <<>> }
  ELSE { Append(str, c) : str \in StringsOfLen(n - 1), c \in TsChars }

TsStrings == UNION { StringsOfLen(n) : n \in 0..MaxTsLen }

\* playback times explored, in 0.1 s: on both sides of the window's ends
\* around the readings 0 s, 1 s, 10 s and 60 s, and one far from all
FilterTimes == { 0, 4, 5, 6, 15, 16, 94, 95, 105, 106, 200, 594, 595, 605, 606 }

\* an analysis result with one entity has arrived, for a video or a still
\* image
FilterInit ==
  /\ CanvasInit
  /\ dataId = 1
  /\ \E ts \in TsStrings \cup { NoTs } : data = Data(<< Entity(ts) >>)
  /\ visibleObjects = VisibleObjects(data, detailLevel, isVideo, currentTime)
  /\ PipeIdle_Except_Data

\* the playback time changes
NextFilter == \E t \in FilterTimes : handler(t)

SpecFilter == FilterInit /\ [][NextFilter]_vars

----------------------------------------------------------------------------
(* The filter across source changes: one entity that carries no timestamp, *)
(* an empty one, a reading of 1 s or a string without colon; the playback  *)
(* time moves while the source is a video and stays when App hands down a  *)
(* still image.                                                            *)

SourceStamps == { NoTs, <<>>, << "0", ":", "1" >>, << "1" >> }

SourceInit ==
  /\ CanvasInit
  /\ dataId = 1
  /\ \E ts \in SourceStamps : data = Data(<< Entity(ts) >>)
  /\ visibleObjects = VisibleObjects(data, detailLevel, isVideo, currentTime)
  /\ PipeIdle_Except_Data

NextSource ==
  \/ \E t \in FilterTimes : handler(t)
  \/ \E v \in BOOLEAN, d \in Dims : PropSource(v, d)

SpecSource == SourceInit /\ [][NextSource]_vars

----------------------------------------------------------------------------
(* Display of the live detections: on the canvas (render, lines 385-415)   *)
(* and in the HUD of the camera viewport (App, lines 1442-1457).           *)

\* the HUD maps every entry of the list to a box (lines 1442-1457)
HudDrawsLive(det) == TRUE

\* entries of the list explored
MaxLive == 2

\* latest clock value explored, in 0.1 s
MaxLiveTime == 70

LiveStamps == { NoLiveTs, 0, 50 }

LiveDet(ts) == [label |-> "obj", box_2d |-> <<100, 100, 300, 300>>, timestamp |-> ts]

RECURSIVE LiveListsOfLen(_)
LiveListsOfLen(n) ==
  IF n = 0 THEN { <<>> }
  ELSE { Append(l, LiveDet(ts)) : l \in LiveListsOfLen(n - 1), ts \in LiveStamps }

LiveLists == UNION { LiveListsOfLen(n) : n \in 1..MaxLive }

\* a detection result has been stored; App shows the canvas or the camera
LiveInit ==
  /\ CanvasInit
  /\ dataId = 0
  /\ data = NoData
  /\ visibleObjects = <<>>
  /\ PipeIdle_Except_Live
  /\ camTime = 0
  /\ liveDetections \in LiveLists
  /\ viewport \in { "canvas", "camera" }
  /\ liveShown = <<>>
  /\ AppShows(viewport)

\* the camera stream advances the clock of the camera <video>
CameraClock(t) ==
  /\ viewport = "camera"
  /\ t # camTime
  /\ camTime' = t
  /\ ev' = "clock"
  /\ UNCHANGED <<histVars, drawVars>>
  /\ UNCHANGED <<viewVars, mediaVars, effectVars, mounted, nPinch, req,
                 filterVars, liveDetections, viewport, liveShown, layoutVars>>
  /\ UNCHANGED appVars

\* the canvas renders a frame: step 3a of render
DrawLiveCanvas ==
  /\ viewport = "canvas"
  /\ liveShown' = LiveDrawn(liveDetections, isVideo, currentTime)
  /\ frame' = Render(data, visibleObjects, labels, liveDetections, isVideo,
                     mediaReady, imgDims)
  /\ ev' = "livecanvas"
  /\ UNCHANGED <<histVars, mediaReady>>
  /\ UNCHANGED <<viewVars, mediaVars, effectVars, mounted, nPinch, req,
                 filterVars, liveDetections, camTime, viewport, layoutVars>>
  /\ UNCHANGED appVars

\* App renders the camera viewport with its HUD
DrawLiveHud ==
  /\ viewport = "camera"
  /\ liveShown' = [i \in 1..Len(liveDetections) |-> HudDrawsLive(liveDetections[i])]
  /\ ev' = "livehud"
  /\ UNCHANGED <<histVars, drawVars>>
  /\ UNCHANGED <<viewVars, mediaVars, effectVars, mounted, nPinch, req,
                 filterVars, liveDetections, camTime, viewport, layoutVars>>
  /\ UNCHANGED appVars

NextLive ==
  \/ \E t \in 0..MaxLiveTime : viewport = "canvas" /\ handler(t)
  \/ \E t \in 0..MaxLiveTime : CameraClock(t)
  \/ DrawLiveCanvas
  \/ DrawLiveHud

SpecLive == LiveInit /\ [][NextLive]_vars

----------------------------------------------------------------------------
(* The frames of the canvas: one committed entity, a live list that App    *)
(* replaces, a video or a still image that becomes ready at some point.    *)

\* playback times, in 0.1 s: at 6.2 s a detection stamped 5.0 s is 1.2 s
\* old, at 6.3 s it is older
FrameTimes == { 0, 62, 63 }

\* the video has decoded a frame (readyState >= 2), or the image is in the
\* browser's list of available images; no state of the component changes
MediaArrives ==
  /\ ~mediaReady
  /\ mediaReady' = TRUE
  /\ ev' = "ready"
  /\ UNCHANGED <<viewVars, mediaVars, effectVars, mounted, nPinch, req,
                 histVars, frame, pipeVars>>
  /\ UNCHANGED appVars

\* App stores a new list of live detections (lines 1031, 1174) and hands
\* it down
PropLive(l) ==
  /\ mounted
  /\ l # liveDetections
  /\ liveDetections' = l
  /\ effDirty' = TRUE
  /\ req' = NoReq
  /\ input' = NoInput
  /\ ev' = "live"
  /\ UNCHANGED <<viewVars, mediaVars, animationFrameId, rafPending, nextRafId,
                 frameBy, mounted, nPinch, gesture, drawVars, filterVars,
                 camTime, viewport, liveShown, layoutVars>>
  /\ UNCHANGED appVars

FrameInit ==
  /\ CanvasInit
  /\ dataId = 1
  /\ data = Data(<< Entity(NoTs) >>)
  /\ visibleObjects = VisibleObjects(data, detailLevel, isVideo, currentTime)
  /\ PipeIdle_Except_Data

NextFrame ==
  \/ \E t \in FrameTimes : handler(t)
  \/ \E l \in LiveLists \cup { <<>> } : PropLive(l)
  \/ MediaArrives
  \/ \E l \in imgLoads, m \in BOOLEAN : ImgOnload(l, m)
  \/ RunEffect
  \/ \E h \in rafPending : RafFire(h)

SpecFrame == FrameInit /\ [][NextFrame]_vars

----------------------------------------------------------------------------
(* The layout explored: analysis results of up to MaxObjs objects drawn    *)
(* from Entities, for a still image that is laid out at the default        *)
(* dimensions and again once the image has loaded, at each detail level.   *)

\* objects of an analysis result
MaxObjs == 2

\* details of the richest object
MaxDetails == 7

\* box_2d values: upper left, bottom left, and a box right of the frame
Boxes == { <<100, 100, 300, 300>>, <<950, 100, 1000, 300>>,
           <<0, 1200, 100, 1400>> }

Centre(box) == << (box[1] + box[3]) \div 2, (box[2] + box[4]) \div 2 >>

\* n details located at the centre of the box
DetailsAtCentre(box, n) == [k \in 1..n |-> [location_point |-> Centre(box)]]

\* n details located above the centre, each higher than the one before
DetailsRising(box, n) ==
  [k \in 1..n |->
     [location_point |-> << Centre(box)[1] - 10 * k, Centre(box)[2] >>]]

DetailChoices(box) ==
  { <<>>, DetailsRising(box, 2), DetailsAtCentre(box, MaxDetails) }

EntitiesOf(box) ==
  { [id |-> 1, box_2d |-> box, details |-> dets,
     lines |-> IF box[1] < 500 THEN 2 ELSE 1, timestamp |-> NoTs] :
      dets \in DetailChoices(box) }

\* an object that came without box_2d and without details, as the
\* sanitization of analyzeImage leaves it
Unboxed ==
  [id |-> 1, box_2d |-> <<0, 0, 0, 0>>, details |-> <<>>, lines |-> 1,
   timestamp |-> NoTs]

\* the first object of a result
Entities == UNION { EntitiesOf(box) : box \in Boxes } \cup { Unboxed }

\* the objects that may follow it: one in the upper left and one in the
\* upper right, each reaching the vertical centre line
Companions ==
  { [id |-> 1, box_2d |-> <<100, 100, 300, 500>>,
     details |-> DetailsRising(<<100, 100, 300, 500>>, 2),
     lines |-> 2, timestamp |-> NoTs],
    [id |-> 1, box_2d |-> <<100, 500, 300, 900>>, details |-> <<>>,
     lines |-> 1, timestamp |-> NoTs] }

RECURSIVE ObjectListsOfLen(_)
ObjectListsOfLen(n) ==
  IF n = 1 THEN { << e >> : e \in Entities }
  ELSE { Append(l, [e EXCEPT !.id = n]) :
           l \in ObjectListsOfLen(n - 1), e \in Companions }

ObjectLists == UNION { ObjectListsOfLen(n) : n \in 1..MaxObjs }

\* an analysis result has arrived while its still image is loading
LayoutInit ==
  /\ CanvasInit
  /\ ~isVideo
  /\ dataId = 1
  /\ \E objs \in ObjectLists : data = Data(objs)
  /\ visibleObjects = VisibleObjects(data, detailLevel, isVideo, currentTime)
  /\ PipeIdle_Except_Data

NextLayout ==
  \/ \E l \in imgLoads, m \in BOOLEAN : ImgOnload(l, m)
  \/ \E l \in DetailLevels : PropDetail(l)

SpecLayout == LayoutInit /\ [][NextLayout]_vars

\* The same results drawn: the image loads and the render effect draws the
\* frame of the new layout.
NextDrawn ==
  \/ \E l \in imgLoads, m \in BOOLEAN : ImgOnload(l, m)
  \/ RunEffect

SpecDrawn == LayoutInit /\ [][NextDrawn]_vars

----------------------------------------------------------------------------
(* The solver as a function (lines 66-111): the layouts above and that of  *)
(* a crowded result, and solve1DLayout called once more, with the same     *)
(* band, on the array and the targets a call has left behind.              *)

\* a box that spans the height of the frame on the left
TallBox == <<100, 100, 1000, 300>>

\* n details located on the upper edge of the box
DetailsAtTop(box, n) ==
  [k \in 1..n |-> [location_point |-> << box[1], Centre(box)[2] >>]]

\* three objects on the left, two of them with MaxDetails details
Crowded ==
  << [id |-> 1, box_2d |-> TallBox,
      details |-> DetailsAtTop(TallBox, MaxDetails),
      lines |-> 1, timestamp |-> NoTs],
     [id |-> 2, box_2d |-> <<100, 100, 300, 300>>, details |-> <<>>,
      lines |-> 1, timestamp |-> NoTs],
     [id |-> 3, box_2d |-> <<100, 100, 300, 300>>,
      details |-> DetailsAtTop(<<100, 100, 300, 300>>, MaxDetails),
      lines |-> 1, timestamp |-> NoTs] >>

SolverLists == ObjectListsOfLen(1) \cup { Crowded }

SolverInit ==
  /\ CanvasInit
  /\ ~isVideo
  /\ dataId = 1
  /\ \E objs \in SolverLists : data = Data(objs)
  /\ visibleObjects = VisibleObjects(data, detailLevel, isVideo, currentTime)
  /\ PipeIdle_Except_Data

\* solve1DLayout(items, true, minPos, maxPos) on the array of side e as the
\* previous call left it
SolveAgain(e) ==
  /\ mounted
  /\ LET items == IF e = "left" THEN leftItems ELSE rightItems
         r == solve1DLayout(labels, items, BandMin, BandMax(imgDims))
     IN  /\ items # <<>>
         /\ labels' = r.labels
         /\ leftItems' = IF e = "left" THEN r.items ELSE leftItems
         /\ rightItems' = IF e = "right" THEN r.items ELSE rightItems
         /\ passes' = [passes EXCEPT ![e] = r.passes]
  /\ ev' = "solve"
  /\ req' = NoReq
  /\ input' = NoInput
  /\ UNCHANGED <<gesture, drawVars, filterVars, liveVars>>
  /\ UNCHANGED <<viewVars, mediaVars, effectVars, mounted, nPinch>>
  /\ UNCHANGED appVars

NextSolver ==
  \/ \E l \in imgLoads, m \in BOOLEAN : ImgOnload(l, m)
  \/ \E l \in DetailLevels : PropDetail(l)
  \/ \E e \in { "left", "right" } : SolveAgain(e)

SpecSolver == SolverInit /\ [][NextSolver]_vars

----------------------------------------------------------------------------
(* The coordinate transform (lines 223-234, 288-289, 382-399): results     *)
(* laid out at the default dimensions and again at the native dimensions   *)
(* the image or the video reports.                                         *)

\* naturalWidth x naturalHeight, videoWidth x videoHeight: a full-HD frame,
\* a small one, and the 0 x 0 of a video file without a video track
NativeDims == Dims \cup { <<640, 480>>, <<0, 0>> }

TransformInit ==
  /\ CanvasInitWith(NativeDims)
  /\ dataId = 1
  /\ \E objs \in ObjectListsOfLen(1) : data = Data(objs)
  /\ visibleObjects = VisibleObjects(data, detailLevel, isVideo, currentTime)
  /\ PipeIdle_Except_Data

NextTransform ==
  \/ \E l \in imgLoads, m \in BOOLEAN : ImgOnload(l, m)
  \/ \E m \in BOOLEAN : metaHandler(m)
  \/ \E l \in DetailLevels : PropDetail(l)

SpecTransform == TransformInit /\ [][NextTransform]_vars

----------------------------------------------------------------------------
(* App: the handlers of the controls (lines 1028-1111, 1199-1264,          *)
(* 1341-1357), the promises they leave pending and the live detection loop *)
(* (lines 1126-1196).  The canvas keeps the state of its first commit.     *)

MaxFiles       == 2  \* files the user selects from
MaxCamRequests == 1  \* getUserMedia calls pending at once
MaxGen         == 5  \* runs of the live detection effect
MaxClock       == 2  \* Date.now() stops here, in 0.5 s

canvasSide == <<canvasVars, filterVars, layoutVars, camTime, viewport,
                liveShown>>

\* nothing selected, App displays the idle placeholder
AppInit ==
  /\ CanvasInit
  /\ ~isVideo
  /\ dataId = 0
  /\ data = NoData
  /\ visibleObjects = <<>>
  /\ liveDetections = <<>>
  /\ camTime = 0
  /\ viewport = "canvas"
  /\ liveShown = <<>>
  /\ PipeIdle_Except_Live
  /\ AppShows("idle")

\* the re-render a handler causes re-runs the effect when a dependency
\* changed (line 1196)
EffectDue == pollDirty' = (pollDirty \/ PollDeps' # PollDeps)

\* React runs an effect that is due before it renders again: a step that
\* sets state finds the live detection effect of the last render run
EffectsFlushed == ~pollDirty

\* the hidden <video> starts paused whenever it is mounted anew or given
\* another src (lines 621-630: no autoPlay)
VideoKept == vidPaused' = (IF HasFileVideo' THEN vidPaused ELSE TRUE)

\* lines 1089-1100
stopCamera ==
  /\ streamRef' = FALSE
  /\ isCameraActive' = FALSE
  /\ isPaused' = FALSE
  /\ liveDetections' = <<>>

\* lines 1028-1058: the user selects file f, a video or not
handleFileChange(f, video) ==
  /\ EffectsFlushed
  /\ file' = f
  /\ analysisData' = NoMedia
  /\ error' = NoError
  /\ stopCamera
  /\ isPlaying' = FALSE
  /\ imagePreview' = f
  /\ isVideoFile' = video
  /\ vidPaused' = TRUE
  /\ cleared' = TRUE
  /\ UNCHANGED <<inputMode, loading, camRequests, analyses>>
  /\ EffectDue
  /\ UNCHANGED <<rateLimitBackoffRef, rateLimitActive, now, pollGen, pollCap,
                 timers, requests, lastQuota>>
  /\ UNCHANGED canvasSide

\* lines 1256-1264
handleModeChange(mode) ==
  /\ EffectsFlushed
  /\ inputMode' = mode
  /\ error' = NoError
  /\ IF mode = "file"
       THEN /\ stopCamera
            /\ UNCHANGED <<analysisData, imagePreview, cleared>>
       ELSE /\ analysisData' = NoMedia
            /\ imagePreview' = NoMedia
            /\ cleared' = FALSE
            /\ UNCHANGED <<streamRef, isCameraActive, isPaused, liveDetections>>
  /\ UNCHANGED <<loading, isVideoFile, isPlaying, file, camRequests, analyses>>
  /\ VideoKept
  /\ EffectDue
  /\ UNCHANGED <<rateLimitBackoffRef, rateLimitActive, now, pollGen, pollCap,
                 timers, requests, lastQuota>>
  /\ UNCHANGED canvasSide

\* the analyse button is enabled (lines 859-880, hasImage at line 1741)
CanAnalyze ==
  ~loading /\ ~(inputMode = "file" /\ file = NoMedia /\ imagePreview = NoMedia)

\* lines 1199-1254, up to the first await
handleAction ==
  /\ EffectsFlushed
  /\ CanAnalyze
  /\ IF inputMode = "camera" /\ ~isCameraActive
       THEN \* await startCamera(): getUserMedia is asked (line 1065)
            /\ camRequests < MaxCamRequests
            /\ camRequests' = camRequests + 1
            /\ UNCHANGED <<flagVars, imagePreview, streamRef, error,
                           analyses, liveDetections>>
     ELSE IF inputMode = "camera" /\ isCameraActive
       THEN \* the frame is captured and handed to analyzeImage
            /\ loading' = TRUE
            /\ error' = NoError
            /\ stopCamera
            /\ imagePreview' = Captured
            /\ isVideoFile' = FALSE
            /\ analyses' = analyses \cup { [of |-> Captured] }
            /\ UNCHANGED <<inputMode, isPlaying, camRequests>>
     ELSE IF inputMode = "file" /\ file # NoMedia
       THEN \* the file is read and handed to analyzeImage
            /\ loading' = TRUE
            /\ error' = NoError
            /\ analyses' = analyses \cup { [of |-> file] }
            /\ UNCHANGED <<inputMode, isCameraActive, isPaused, isVideoFile,
                           isPlaying, imagePreview, streamRef, camRequests,
                           liveDetections>>
       ELSE \* "No source data found.": loading is set and reset at once
            /\ error' = "nosource"
            /\ UNCHANGED <<flagVars, imagePreview, streamRef, camRequests,
                           analyses, liveDetections>>
  /\ UNCHANGED <<file, analysisData, cleared>>
  /\ VideoKept
  /\ EffectDue
  /\ UNCHANGED <<rateLimitBackoffRef, rateLimitActive, now, pollGen, pollCap,
                 timers, requests, lastQuota>>
  /\ UNCHANGED canvasSide

\* getUserMedia resolves: the rest of startCamera (lines 1069-1075)
CameraGranted ==
  /\ EffectsFlushed
  /\ camRequests > 0
  /\ camRequests' = camRequests - 1
  /\ streamRef' = TRUE
  /\ isCameraActive' = TRUE
  /\ isPaused' = FALSE
  /\ analysisData' = NoMedia
  /\ imagePreview' = NoMedia
  /\ error' = NoError
  /\ liveDetections' = <<>>
  /\ cleared' = FALSE
  /\ UNCHANGED <<inputMode, loading, isVideoFile, isPlaying, file, analyses>>
  /\ VideoKept
  /\ EffectDue
  /\ UNCHANGED <<rateLimitBackoffRef, rateLimitActive, now, pollGen, pollCap,
                 timers, requests, lastQuota>>
  /\ UNCHANGED canvasSide

\* getUserMedia rejects (lines 1076-1079): only the error text is set
CameraDenied ==
  /\ EffectsFlushed
  /\ camRequests > 0
  /\ camRequests' = camRequests - 1
  /\ error' = "camera"
  /\ UNCHANGED <<flagVars, file, imagePreview, analysisData, streamRef,
                 analyses, vidPaused, pollVars, liveDetections>>
  /\ UNCHANGED canvasSide

\* analyzeImage resolves: lines 1237-1238 and 1251
AnalysisDone(a) ==
  /\ EffectsFlushed
  /\ a \in analyses
  /\ analyses' = analyses \ {a}
  /\ analysisData' = a.of
  /\ loading' = FALSE
  /\ UNCHANGED <<inputMode, isCameraActive, isPaused, isVideoFile, isPlaying,
                 file, imagePreview, streamRef, error, camRequests, vidPaused,
                 liveDetections, cleared>>
  /\ EffectDue
  /\ UNCHANGED <<rateLimitBackoffRef, rateLimitActive, now, pollGen, pollCap,
                 timers, requests, lastQuota>>
  /\ UNCHANGED canvasSide

\* reading the file or analyzeImage rejects: lines 1247-1251
AnalysisFailed(a) ==
  /\ EffectsFlushed
  /\ a \in analyses
  /\ analyses' = analyses \ {a}
  /\ loading' = FALSE
  /\ error' = "analysis"
  /\ UNCHANGED <<inputMode, isCameraActive, isPaused, isVideoFile, isPlaying,
                 file, imagePreview, analysisData, streamRef, camRequests,
                 vidPaused, liveDetections, cleared>>
  /\ EffectDue
  /\ UNCHANGED <<rateLimitBackoffRef, rateLimitActive, now, pollGen, pollCap,
                 timers, requests, lastQuota>>
  /\ UNCHANGED canvasSide

\* lines 1102-1111
togglePause ==
  /\ EffectsFlushed
  /\ HasCameraVideo
  /\ isPaused' = ~isPaused
  /\ UNCHANGED <<inputMode, isCameraActive, loading, isVideoFile, isPlaying,
                 sessVars, liveDetections, cleared>>
  /\ EffectDue
  /\ UNCHANGED <<rateLimitBackoffRef, rateLimitActive, now, pollGen, pollCap,
                 timers, requests, lastQuota>>
  /\ UNCHANGED canvasSide

\* lines 1341-1347
toggleFileVideoPlay ==
  /\ EffectsFlushed
  /\ HasFileVideo
  /\ vidPaused' = isPlaying
  /\ isPlaying' = ~isPlaying
  /\ cleared' = (cleared /\ isPlaying)
  /\ UNCHANGED <<inputMode, isCameraActive, isPaused, loading, isVideoFile,
                 file, imagePreview, analysisData, streamRef, error,
                 camRequests, analyses, liveDetections>>
  /\ EffectDue
  /\ UNCHANGED <<rateLimitBackoffRef, rateLimitActive, now, pollGen, pollCap,
                 timers, requests, lastQuota>>
  /\ UNCHANGED canvasSide

\* lines 1349-1357
stopFileVideo ==
  /\ EffectsFlushed
  /\ HasFileVideo
  /\ vidPaused' = TRUE
  /\ isPlaying' = FALSE
  /\ liveDetections' = <<>>
  /\ cleared' = TRUE
  /\ UNCHANGED <<inputMode, isCameraActive, isPaused, loading, isVideoFile,
                 file, imagePreview, analysisData, streamRef, error,
                 camRequests, analyses>>
  /\ EffectDue
  /\ UNCHANGED <<rateLimitBackoffRef, rateLimitActive, now, pollGen, pollCap,
                 timers, requests, lastQuota>>
  /\ UNCHANGED canvasSide

\* tick as the closure c of chain g runs it now
TickNow(c, g) ==
  tick(c, g, now, rateLimitBackoffRef, rateLimitActive, CameraVideo, FileVideo)

\* the effect is cleaned up and run again (lines 1190-1195, then 1127-1188):
\* the old closure's isMounted turns false and its timeout is cleared, the
\* new closure calls tick
PollEffect ==
  /\ pollDirty
  /\ pollGen < MaxGen
  /\ LET c == Closure(inputMode, isCameraActive, isPaused, loading,
                      isVideoFile, isPlaying, rateLimitActive)
         r == TickNow(c, pollGen + 1)
     IN  /\ pollCap' = c
         /\ timers' = { t \in timers : t.gen # pollGen } \cup r.timer
         /\ requests' = requests \cup r.request
         /\ rateLimitActive' = r.limited
  /\ pollGen' = pollGen + 1
  /\ pollDirty' = FALSE
  /\ UNCHANGED <<flagVars, sessVars, rateLimitBackoffRef, now, cleared,
                 lastQuota, liveDetections>>
  /\ UNCHANGED canvasSide

\* a timeout expires and calls tick (line 1131: a closure that was cleaned
\* up returns at once)
TimerFire(t) ==
  /\ t \in timers
  /\ t.due <= now
  /\ IF t.gen = pollGen
       THEN LET r == TickNow(pollCap, pollGen)
            IN  /\ timers' = (timers \ {t}) \cup r.timer
                /\ requests' = requests \cup r.request
                /\ rateLimitActive' = r.limited
       ELSE /\ timers' = timers \ {t}
            /\ UNCHANGED <<requests, rateLimitActive>>
  /\ UNCHANGED <<flagVars, sessVars, rateLimitBackoffRef, now, pollGen,
                 pollDirty, pollCap, cleared, lastQuota, liveDetections>>
  /\ UNCHANGED canvasSide

\* what the service answers a detection request with
Outcomes == { "ok", "quota" }

\* part_002, lines 553-594: an error of the service is caught and an empty
\* list returned; nothing is thrown to the caller
detectLiveObjects(outcome, ts) ==
  [ thrown  |-> FALSE,
    results |-> IF outcome = "ok" THEN << LiveDet(ts) >> ELSE <<>> ]

\* the await of line 1168 ends for request q: lines 1169-1187
Respond(q, outcome) ==
  /\ q \in requests
  /\ requests' = requests \ {q}
  /\ LET res == detectLiveObjects(outcome, q.timestamp)
     IN  /\ liveDetections' =
               IF ~res.thrown /\ q.gen = pollGen /\ q.stillActive
                 THEN res.results ELSE liveDetections
         /\ rateLimitBackoffRef' =
               IF res.thrown /\ outcome = "quota"
                 THEN now + BackoffSpan ELSE rateLimitBackoffRef
         /\ timers' = timers \cup
               { [gen |-> q.gen,
                  due |-> now + (IF res.thrown /\ outcome = "quota"
                                   THEN QuotaDelay ELSE BaseDelay)] }
  /\ lastQuota' = IF outcome = "quota" THEN now ELSE lastQuota
  /\ UNCHANGED <<flagVars, sessVars, rateLimitActive, now, pollGen, pollDirty,
                 pollCap, cleared>>
  /\ UNCHANGED canvasSide

\* half a second passes
TimePasses ==
  /\ now < MaxClock
  /\ now' = now + 1
  /\ UNCHANGED <<flagVars, sessVars, rateLimitBackoffRef, rateLimitActive,
                 pollGen, pollDirty, pollCap, timers, requests, cleared,
                 lastQuota, liveDetections>>
  /\ UNCHANGED canvasSide

NextApp ==
  \/ \E f \in 1..MaxFiles, video \in BOOLEAN : handleFileChange(f, video)
  \/ \E mode \in { "file", "camera" } : handleModeChange(mode)
  \/ handleAction
  \/ CameraGranted
  \/ CameraDenied
  \/ \E a \in analyses : AnalysisDone(a)
  \/ \E a \in analyses : AnalysisFailed(a)
  \/ togglePause
  \/ toggleFileVideoPlay
  \/ stopFileVideo
  \/ PollEffect
  \/ \E t \in timers : TimerFire(t)
  \/ \E q \in requests, outcome \in Outcomes : Respond(q, outcome)
  \/ TimePasses

SpecApp == AppInit /\ [][NextApp]_vars

----------------------------------------------------------------------------
(* Claims about the view state and the render effect.                      *)

\* C4: in every reachable state the scale lies in [0.05, 8.0]; a zoom
\* request for 20 gives exactly 8.0 and one for 0.001 gives exactly 0.05.
C4_ScaleInRange ==
  /\ MinScale <= scale /\ scale <= MaxScale
  /\ 20000000 \in req => scale = MaxScale
  /\ 1000 \in req => scale = MinScale

\* a wheel event asked for scale 20 and the scale is 8.0
C4_Witness == ev = "wheel" /\ 20000000 \in req /\ scale = MaxScale

\* C5: the panning flag and an active pinch (a recorded initial pinch
\* distance) are never both set.
C5_ModeExclusive == ~(isDragging /\ Truthy(initialPinchDistanceRef))

\* C6: no callback of a cleaned-up registration stays registered, no frame
\* is rendered by one, and nothing stays registered after the teardown.
C6_NoStaleFrames ==
  /\ \A h \in rafPending : h.reg = "current"
  /\ ev = "raf" => frameBy = "current"
  /\ ~mounted => rafPending = {}

\* the effect was re-run for a video while a callback was registered
C6_Witness ==
  /\ ev = "effect" /\ isVideo /\ animationFrameId >= 2
  /\ rafPending = { [id |-> animationFrameId, reg |-> "current"] }

\* C7: right after the reset action the offset is (0, 0) and the scale is
\* the default 0.45, whatever the state it was taken in.
C7_ResetRestores ==
  ev = "reset" => offset = [x |-> 0, y |-> 0] /\ scale = DefaultScale

\* the reset was taken in the middle of a drag that had started away from
\* the origin of the view
C7_Witness == ev = "reset" /\ isDragging /\ dragStart # [x |-> 0, y |-> 0]

InputEvents ==
  { "wheel", "mousedown", "mousemove", "mouseup", "touchstart", "touchmove",
    "touchend", "reset" }

ViewChanged == scale' # scale \/ offset' # offset

\* C10 as stated: only pointer, touch, wheel and reset input changes the
\* scale or the offset.
C10_OnlyInputWrites == [][ViewChanged => ev' \in InputEvents]_vars

\* C10 as amended: besides that input, only the image-load and the video
\* metadata handlers change the scale or the offset; rendering a frame, a
\* playback time update, a new analysis result, a detail-level change and a
\* source change do not.
C10_OnlyInputAndLoadWrites ==
  [][ViewChanged => ev' \in InputEvents \cup { "imgload", "meta" }]_vars

\* a frame was rendered from the animation loop while the view was zoomed
C10_Witness == ev = "raf" /\ scale = MaxScale /\ frameBy = "current"

----------------------------------------------------------------------------
(* Claims about the temporal visibility filter and the live detections.    *)

TheTs == data.objects[1].timestamp

CarriesTs == TheTs # NoTs /\ TheTs # <<>>

Colons(str) == { i \in 1..Len(str) : str[i] = ":" }

\* minutes:seconds, each a non-empty run of decimal digits
WellFormed(str) ==
  /\ Cardinality(Colons(str)) = 1
  /\ \A i \in 1..Len(str) : str[i] = ":" \/ IsDigit(str[i])
  /\ str[1] # ":" /\ str[Len(str)] # ":"

\* MM*60+SS, in 0.1 s
Reading(str) ==
  LET k == CHOOSE i \in Colons(str) : TRUE
  IN  (DigitsValue(SubSeq(str, 1, k - 1), k - 1) * 60
         + DigitsValue(SubSeq(str, k + 1, Len(str)), Len(str) - k)) * 10

Passes == visibleObjects # <<>>

\* C1 as stated: for a video source an entity that carries a timestamp
\* passes the filter at time t exactly when the timestamp reads MM:SS and
\* |t - (MM*60+SS)| < 0.6 s; this for every timestamp string.
C1_EveryTimestamp ==
  (isVideo /\ CarriesTs) =>
    (Passes <=> (WellFormed(TheTs)
                   /\ Abs(currentTime - Reading(TheTs)) < VisibilityWindow))

\* C1 as amended: that holds for the strings of the form minutes:seconds;
\* a string without exactly one colon passes at every t, and a string with
\* one colon and an empty part passes at no t.
C1_TimestampWindow ==
  (isVideo /\ CarriesTs) =>
    /\ WellFormed(TheTs) =>
         (Passes <=> Abs(currentTime - Reading(TheTs)) < VisibilityWindow)
    /\ Cardinality(Colons(TheTs)) # 1 => Passes
    /\ (Cardinality(Colons(TheTs)) = 1 /\ ~WellFormed(TheTs)) => ~Passes

\* the entity stamped "00:10" passes at 10.5 s of a video
C1_Witness ==
  /\ isVideo /\ ev = "time"
  /\ TheTs = << "0", "0", ":", "1", "0" >>
  /\ currentTime = 105 /\ Passes

\* C14: the entity passes the temporal filter at every playback time when
\* the source is a still image, whatever its timestamp, and when the
\* source is a video and the entity carries no timestamp.
C14_UnfilteredSources ==
  (~isVideo \/ ~CarriesTs) => Passes

\* a video was replaced by a still image at 20.0 s: the entity stamped
\* "0:1", hidden until then, is shown
C14_Witness ==
  /\ ev = "source" /\ ~isVideo /\ currentTime = 200
  /\ TheTs = << "0", ":", "1" >> /\ Passes

LiveFrame == ev \in { "livecanvas", "livehud" }

FileVideoCanvas == viewport = "canvas" /\ isVideo

LiveClockNow == IF viewport = "canvas" THEN currentTime ELSE camTime

Fresh(det) == Abs(LiveClockNow - det.timestamp) <= StaleBound

\* C2 as stated: on the canvas during file-video playback and in the
\* camera viewport, a frame shows a live detection exactly when its
\* capture timestamp is within 1.2 s of the current time.
C2_StaleHiddenEverywhere ==
  (LiveFrame /\ (FileVideoCanvas \/ viewport = "camera")) =>
    \A i \in 1..Len(liveDetections) :
      liveDetections[i].timestamp # NoLiveTs =>
        (liveShown[i] <=> Fresh(liveDetections[i]))

\* C2 as amended: that holds on the canvas during file-video playback; the
\* HUD of the camera viewport shows every entry of the list, whatever its
\* age.
C2_StaleHiddenOnCanvas ==
  LiveFrame =>
    \A i \in 1..Len(liveDetections) :
      /\ (FileVideoCanvas /\ liveDetections[i].timestamp # NoLiveTs) =>
           (liveShown[i] <=> Fresh(liveDetections[i]))
      /\ viewport = "camera" => liveShown[i]

\* a detection captured at 5.0 s is dropped from the frame drawn at 7.0 s,
\* next to one that carries no timestamp
C2_Witness ==
  /\ ev = "livecanvas" /\ FileVideoCanvas /\ currentTime = 70
  /\ liveDetections = << LiveDet(50), LiveDet(NoLiveTs) >>
  /\ liveShown = << FALSE, TRUE >>

----------------------------------------------------------------------------
(* Claims about the gestures.                                              *)

\* the latest step was a move of one pointer
OnePointerMove ==
  ev = "mousemove" \/ (ev = "touchmove" /\ Len(input) = 1)

Panning == isDragging

Pinching == Truthy(initialPinchDistanceRef)

\* pointerPositionAtDown - offsetAtDown
dragAnchor ==
  [x |-> gesture.downAt.x - gesture.offsetAtDown.x,
   y |-> gesture.downAt.y - gesture.offsetAtDown.y]

PanFollowsPointer ==
  (OnePointerMove /\ Panning) =>
    offset = [x |-> input[1].x - dragAnchor.x, y |-> input[1].y - dragAnchor.y]

ReleaseEvents == { "mouseup", "touchend" }

MoveEvents == { "mousemove", "touchmove" }

ReleaseEndsPan ==
  /\ ev' \in ReleaseEvents => ~Panning'
  /\ (ev' \in ReleaseEvents /\ ~Pinching) => ~Pinching'
  /\ (ev' \in MoveEvents /\ ~Panning) => offset' = offset

TwoPointMove == ev = "touchmove" /\ Len(input) = 2

PinchFollowsDistance ==
  (TwoPointMove /\ Pinching) =>
    scale = ClampScale((gesture.scaleAtPinch * TouchDist(input))
                          \div gesture.distAtPinch)

PinchKeepsOffset == (ev' = "touchmove" /\ Len(input') = 2) => offset' = offset

\* C12: while pinching, after every two-finger move the scale is
\* clamp(initialScale * currentDistance / initialDistance, 0.05, 8.0) with
\* the scale and the distance of the two-finger touch-start, and the move
\* leaves the offset as it was.
C12_PinchScales == []PinchFollowsDistance /\ [][PinchKeepsOffset]_vars

\* fingers that touched down 100 px apart at the default scale are 200 px
\* apart and the scale is 0.9
C12_Witness ==
  /\ TwoPointMove /\ Pinching
  /\ gesture.distAtPinch = 100 /\ gesture.scaleAtPinch = DefaultScale
  /\ TouchDist(input) = 200 /\ scale = 2 * DefaultScale
  /\ initialScaleRef = DefaultScale

WheelZooms ==
  ev' = "wheel" =>
    /\ scale' = ClampScale(scale - input'[1] * WheelStep)
    /\ offset' = offset
    /\ Panning' = Panning
    /\ initialPinchDistanceRef' = initialPinchDistanceRef

\* C13: a wheel event with vertical delta d sets the scale to
\* clamp(scale - 0.001 * d, 0.05, 8.0) whether the canvas is idle, panning
\* or pinching, and leaves the offset and the mode as they were.
C13_WheelZoomsInEveryMode == [][WheelZooms]_vars

\* a wheel event during a pinch has taken the scale to 0.05
C13_Witness ==
  /\ ev = "wheel" /\ Pinching /\ ~Panning
  /\ input = << 7999 >> /\ scale = MinScale

\* a touch-end has just ended a pinch
PinchLeft == ev = "touchend" /\ gesture.lifted

Idle == ~Panning /\ ~Pinching

\* a touch-move after the pinch was left, with no touch-start since, writes
\* neither offset nor scale
RemainingFingerInert ==
  (gesture.lifted /\ ev' = "touchmove") => offset' = offset /\ scale' = scale

\* C24 as stated: when a touch-end leaves a pinch the canvas is Idle, and
\* until the next touch-start no touch-move changes the offset or the scale.
C24_NoPanAfterPinch == [](PinchLeft => Idle) /\ [][RemainingFingerInert]_vars

----------------------------------------------------------------------------
(* Claims about the frames.                                                *)

\* the latest step was a call of render whose closure holds the present
\* values: the call of the effect, or a frame callback with no dependency
\* changed since
Rendered == mounted /\ (ev = "effect" \/ (ev = "raf" /\ ~effDirty))

\* the live list is empty or each of its entries is discarded as stale
NoLiveActive ==
  \A i \in 1..Len(liveDetections) :
    ~CanvasDrawsLive(liveDetections[i], isVideo, currentTime)

\* C15 as stated: a frame rendered while no live detection is active shows
\* every committed visible entity and every label with its connector.
C15_CommittedDrawnWithoutLive ==
  (Rendered /\ NoLiveActive) =>
    /\ frame.objects = 1..Len(visibleObjects)
    /\ DOMAIN frame.connectors = 1..Len(labels)

\* C16 as stated: a frame rendered while the media is not ready shows the
\* placeholder, and a further render is registered, for a video and for a
\* still image.
C16_PlaceholderAndRetry ==
  (Rendered /\ ~mediaReady) =>
    /\ frame.media = "placeholder"
    /\ \E h \in rafPending : h.reg = "current"

----------------------------------------------------------------------------
(* Claims about the label layout.                                          *)

Side(e) == IF e = "left" THEN leftItems ELSE rightItems

Top(l) == l.ty - l.height \div 2

Bottom(l) == l.ty + l.height \div 2

Overlap(a, b) == Top(a) < Bottom(b) /\ Top(b) < Bottom(a)

\* C3 as stated: when solve1DLayout returned before its 20th pass, no two
\* labels of that side have overlapping intervals
\* [ty - height/2, ty + height/2].
C3_NoOverlapWithinBudget ==
  \A e \in { "left", "right" } :
    passes[e] < MaxIterations =>
      \A i, j \in 1..Len(Side(e)) :
        i < j => ~Overlap(labels[Side(e)[i]], labels[Side(e)[j]])

\* C8: after the layout is computed every label's interval
\* [ty - height/2, ty + height/2] lies inside
\* [-MARGIN_Y + 100, mediaHeight + MARGIN_Y - 100], a left label's box lies
\* entirely at x < 0 and a right label's box entirely at x > mediaWidth.
C8_TargetsInBand ==
  \A i \in 1..Len(labels) :
    /\ BandMin <= Top(labels[i])
    /\ Bottom(labels[i]) <= BandMax(imgDims)
    /\ labels[i].edge = "left" => labels[i].tx + labels[i].width \div 2 < 0
    /\ labels[i].edge = "right" =>
         labels[i].tx - labels[i].width \div 2 > Px(imgDims.w)

\* once the image has loaded, the seventh detail of an object low on the
\* left, whose initial target was below the band, sits flush with the
\* band's lower end, and a label is laid out on the right as well
C8_Witness ==
  /\ ev = "imgload"
  /\ rightItems # <<>>
  /\ \E i \in 1..Len(labels) :
       /\ ~labels[i].isHeader /\ labels[i].edge = "left"
       /\ labels[i].py + MaxDetails * Px(DetailStep) > BandMax(imgDims)
       /\ Bottom(labels[i]) = BandMax(imgDims)

\* C9 as stated: every label's anchor (px, py) lies within the media
\* bounds, 0 <= px <= mediaWidth and 0 <= py <= mediaHeight.
C9_AnchorsInMedia ==
  \A i \in 1..Len(labels) :
    /\ 0 <= labels[i].px /\ labels[i].px <= Px(imgDims.w)
    /\ 0 <= labels[i].py /\ labels[i].py <= Px(imgDims.h)

\* box_2d as the sanitization leaves a missing one, or with a coordinate
\* outside the normalised range
InvalidBox(box) ==
  box = <<0, 0, 0, 0>> \/ \E k \in 1..4 : box[k] < 0 \/ box[k] > 1000

\* C17 as stated: a rendered frame holds nothing of an entity whose box is
\* missing or out of range: no box, no corner accents, no header label with
\* its connector.
C17_NothingForBadBox ==
  Rendered =>
    \A i \in 1..Len(visibleObjects) :
      InvalidBox(visibleObjects[i].box_2d) =>
        /\ i \notin frame.objects
        /\ \A k \in DOMAIN frame.connectors :
             ~(labels[k].isHeader /\ labels[k].obj = i)

IsPrefix(a, b) == Len(a) <= Len(b) /\ \A i \in 1..Len(a) : a[i] = b[i]

\* the temporally filtered list the reduction starts from
Filtered ==
  IF data.null THEN <<>>
  ELSE IF isVideo THEN FilterSeq(data.objects, currentTime) ELSE data.objects

\* C18: the entities shown are a prefix of the filtered list in its order,
\* the details of each are a prefix of its details in their order, and the
\* list held is the one the list and the detail level at hand determine,
\* whatever the levels chosen before.
C18_PrefixTruncation ==
  /\ Len(visibleObjects) <= Len(Filtered)
  /\ \A i \in 1..Len(visibleObjects) :
       /\ IsPrefix(visibleObjects[i].details, Filtered[i].details)
       /\ visibleObjects[i] =
            [Filtered[i] EXCEPT !.details = visibleObjects[i].details]
  /\ visibleObjects = VisibleObjects(data, detailLevel, isVideo, currentTime)

\* at level 20 the second of two objects is dropped and the first keeps
\* one of its seven details
C18_Witness ==
  /\ ev = "detail" /\ detailLevel = 20
  /\ Len(Filtered) = 2 /\ Len(visibleObjects) = 1
  /\ Len(Filtered[1].details) = MaxDetails
  /\ Len(visibleObjects[1].details) = 1

\* strictly left of the media or strictly right of it
OutsideMedia(x) == x < 0 \/ x > Px(imgDims.w)

channelX(lbl) ==
  IF lbl.edge = "left" THEN Px(-ChannelReach) ELSE Px(imgDims.w + ChannelReach)

\* C19: the connector of every label drawn is the path anchor,
\* (channelX, anchor.y), (channelX, target.y), target with channelX = -50 on
\* the left and mediaWidth + 50 on the right; the channel and the target
\* lie outside the media on the same side, so the vertical segment and the
\* segment into the label do not cross the media.
C19_ConnectorInChannel ==
  Rendered =>
    \A k \in DOMAIN frame.connectors :
      /\ frame.connectors[k] =
           << <<labels[k].px, labels[k].py>>,
              <<channelX(labels[k]), labels[k].py>>,
              <<channelX(labels[k]), labels[k].ty>>,
              <<labels[k].tx, labels[k].ty>> >>
      /\ OutsideMedia(frame.connectors[k][2][1])
      /\ frame.connectors[k][3][1] = frame.connectors[k][2][1]
      /\ OutsideMedia(frame.connectors[k][4][1])
      /\ (frame.connectors[k][3][1] < 0) <=> (frame.connectors[k][4][1] < 0)

\* a frame of the loaded image with a label on each side, the left one
\* moved by the solver away from the height of its anchor
C19_Witness ==
  /\ Rendered /\ ev = "effect" /\ imgDims.w = 1920
  /\ \E j, k \in DOMAIN frame.connectors :
       /\ labels[j].edge = "left" /\ labels[j].ty # labels[j].py
       /\ labels[k].edge = "right"

\* the box lies left of the vertical centre line, or on it
InLeftHalf(box) == box[4] <= 500

\* the box lies right of the vertical centre line, or reaches it from the
\* right
InRightHalf(box) == box[2] >= 500 /\ box[4] > 500

\* C20: the labels of an entity whose box lies in the left half are on the
\* left, those of an entity whose box lies in the right half are on the
\* right, and the header and the detail labels of one entity share their
\* side.
C20_SideByHalf ==
  \A k \in 1..Len(labels) :
    LET box == visibleObjects[labels[k].obj].box_2d
    IN  /\ InLeftHalf(box) => labels[k].edge = "left"
        /\ InRightHalf(box) => labels[k].edge = "right"
        /\ \A j \in 1..Len(labels) :
             labels[j].obj = labels[k].obj => labels[j].edge = labels[k].edge

\* an object low on the left with its details, and one whose box starts on
\* the centre line, on the right
C20_Witness ==
  /\ ev = "imgload"
  /\ \E j, k \in 1..Len(labels) :
       /\ ~labels[j].isHeader /\ labels[j].edge = "left"
       /\ visibleObjects[labels[j].obj].box_2d = <<950, 100, 1000, 300>>
       /\ labels[k].edge = "right"
       /\ visibleObjects[labels[k].obj].box_2d[2] = 500

----------------------------------------------------------------------------
(* Claims about the solver.                                                *)

Sides == { "left", "right" }

\* C21 as stated: when the call that laid out a side returned before
\* exhausting its budget, a second call of solve1DLayout on that side, with
\* the same band, moves no label.
C21_SecondRunMovesNothing ==
  [][\A e \in Sides :
       (passes[e] < MaxIterations /\ SolveAgain(e)) => labels' = labels]_vars

\* the labels as layout creates them, before the solver runs
FreshLabels ==
  IF data.null THEN <<>> ELSE BuildLabels(visibleObjects, 1, imgDims)

\* the passes of a loop without break, from targets ty on: of each pass
\* whether its sweep over the adjacent pairs found a pair closer than its
\* minimum separation, and the targets after its boundary constraints
RECURSIVE RunPasses(_, _, _, _, _)
RunPasses(ty, size, minPos, maxPos, n) ==
  IF n = 0 THEN <<>>
  ELSE LET sw == Sweep(ty, size, 1, FALSE)
           bounded == Constrain(sw.ty, size, minPos, maxPos)
       IN  << [ty |-> bounded, overlapFound |-> sw.overlapFound] >>
             \o RunPasses(bounded, size, minPos, maxPos, n - 1)

\* the array of side e held fresh labels and solve1DLayout ran p passes on
\* it: it stopped with the first pass that found no pair too close, or
\* with the last of its budget, and the labels hold the targets that pass
\* left
StoppedAt(fresh, e, p) ==
  \E run \in { RunPasses([i \in 1..Len(Side(e)) |-> fresh[Side(e)[i]].ty],
                          [i \in 1..Len(Side(e)) |-> fresh[Side(e)[i]].height],
                          BandMin, BandMax(imgDims), p) } :
    /\ \A n \in 1..(p - 1) : run[n].overlapFound
    /\ p < MaxIterations => ~run[p].overlapFound
    /\ \A i \in 1..Len(Side(e)) : labels[Side(e)[i]].ty = run[p].ty[i]

\* C22: solve1DLayout returns after at most 20 passes, with a target for
\* every label; it runs no pass on an empty array, and otherwise stops with
\* the first pass that finds no adjacent pair closer than its minimum
\* separation, or with the 20th.
C22_StopsWithinBudget ==
  \A e \in Sides :
    /\ passes[e] \in 0..MaxIterations
    /\ passes[e] = 0 <=> Side(e) = <<>>
    /\ passes[e] > 0 => \E fresh \in { FreshLabels } :
                           StoppedAt(fresh, e, passes[e])

\* after the slider moved, one side was solved in more than one pass and
\* fewer than 20, and a side ran out of budget in some layout as well
C22_Witness ==
  /\ ev = "detail"
  /\ \E e \in Sides : passes[e] > 1 /\ passes[e] < MaxIterations

\* label i comes before label j on its side: its anchor is higher, or as
\* high and the label was created earlier
AnchorBefore(i, j) ==
  /\ labels[i].edge = labels[j].edge
  /\ \/ labels[i].py < labels[j].py
     \/ labels[i].py = labels[j].py /\ i < j

\* C25 as stated: after solve1DLayout returns, of two labels of one side
\* the one whose anchor comes first has a target not greater than the
\* other's.
C25_OrderPreserved ==
  \A i, j \in 1..Len(labels) :
    AnchorBefore(i, j) => labels[i].ty <= labels[j].ty

----------------------------------------------------------------------------
(* Claims about the coordinate transform.                                  *)

\* a media-space coordinate times the inverse factor 1000 / size; with
\* size 0 the factor is Infinity and the product 0 * Infinity is NaN
ToNorm(m, size) ==
  IF size = 0 THEN NaN ELSE Num(m \div (size * (PosRes \div 1000)))

\* the header label that label k belongs to
HeadOf(k) ==
  CHOOSE j \in 1..k :
    labels[j].isHeader /\ \A i \in (j + 1)..k : ~labels[i].isHeader

\* the normalised point label k is anchored at: a detail's location_point
\* as <<x, y>>, for a header the near edge of the box (y is the centre and
\* no coordinate of the box)
AnchorNorm(k) ==
  LET obj == visibleObjects[labels[k].obj]
  IN  IF labels[k].isHeader
        THEN << IF labels[k].edge = "left" THEN obj.box_2d[2]
                                           ELSE obj.box_2d[4] >>
        ELSE << obj.details[k - HeadOf(k)].location_point[2],
                obj.details[k - HeadOf(k)].location_point[1] >>

\* C23 as stated: the anchors of the labels of every object with a valid
\* box are its normalised coordinates times W / 1000 and H / 1000, and
\* times 1000 / W and 1000 / H they give the normalised coordinates back,
\* whatever dimensions the media reported.
C23_TransformRoundTrip ==
  \A k \in 1..Len(labels) :
    ~InvalidBox(visibleObjects[labels[k].obj].box_2d) =>
      /\ labels[k].px = AnchorNorm(k)[1] * imgDims.w * (PosRes \div 1000)
      /\ ToNorm(labels[k].px, imgDims.w) = Num(AnchorNorm(k)[1])
      /\ ~labels[k].isHeader =>
           /\ labels[k].py = AnchorNorm(k)[2] * imgDims.h * (PosRes \div 1000)
           /\ ToNorm(labels[k].py, imgDims.h) = Num(AnchorNorm(k)[2])

----------------------------------------------------------------------------
(* Claims about App: the live detection loop, the camera and the analysis. *)

ViewportsShown ==
  { v \in { "camera", "canvas", "idle" } :
      \/ v = "camera" /\ inputMode = "camera" /\ isCameraActive
      \/ v = "canvas" /\ ~isCameraActive /\ imagePreview # NoMedia
      \/ v = "idle" /\ ~isCameraActive /\ imagePreview = NoMedia }

\* C27: the camera is active only in camera mode, a stream is held only
\* while the camera is active, and exactly one viewport state is displayed
C27_OneViewport ==
  /\ isCameraActive => inputMode = "camera"
  /\ streamRef => isCameraActive
  /\ Cardinality(ViewportsShown) = 1

\* the media App has loaded: the preview it displays, or the selected file
\* when file mode displays none; the live camera feed is no such media
CurrentMedia ==
  IF isCameraActive THEN NoMedia
  ELSE IF imagePreview # NoMedia THEN imagePreview
  ELSE IF inputMode = "file" THEN file
  ELSE NoMedia

\* C28: a stored analysis result was computed from the media that is
\* loaded now
C28_ResultOfCurrentMedia == analysisData # NoMedia => analysisData = CurrentMedia

\* C29: after a detection request failed on quota the backoff lasts 10 s
\* from the failure, and no request is sent within it
C29_QuotaBackoff ==
  lastQuota # NoQuota =>
    /\ rateLimitBackoffRef >= lastQuota + BackoffSpan
    /\ \A q \in requests :
         q.sent <= lastQuota \/ q.sent >= lastQuota + BackoffSpan

\* C30: at most one detection request is in flight, and a request is sent
\* only by the chain of the latest run of the effect
C30_OneRequestInFlight ==
  /\ [](Cardinality(requests) <= 1)
  /\ [][\A q \in requests' \ requests : q.gen = pollGen']_vars

====
